---- MODULE Spec2Model ----
(***************************************************************************)
(* State-machine model of the recording core of OBS-League-Integration:    *)
(*   GameTracker (src/src/logic.py) driven by peer-1 (League client)       *)
(*   events, and the part of OBSClient (src/src/obs_client.py) it drives:  *)
(*   start/stop recording workers, the RecordStateChanged subscription,    *)
(*   connect and disconnect.                                               *)
(*                                                                         *)
(* Atomicity.  The two peer-1 handlers run one after the other on the      *)
(* LCU dispatch loop; each is one action.  _handle_phase_change reads      *)
(* recording_started at most twice with no write in between, and both      *)
(* reads guard the same request, so a RecordStateChanged delivery that     *)
(* falls between the two reads has the effect of one that falls before or  *)
(* after the handler.  Each OBSClient worker holds _operation_lock around  *)
(* its RPC call and the assignment that follows; the action of a worker is *)
(* the return of that call.                                                *)
(*                                                                         *)
(* Components.  Specifications Spec and SpecScenario drive GameTracker.    *)
(* SpecApi is the subscription table and the dispatch loop of LCUApi       *)
(* (src/src/api.py).  SpecAuth is LeagueClientAuth (src/src/auth.py) with  *)
(* its monitor thread, a thread that stops it, and the synchronous         *)
(* requests of LCUApi, which read the credentials.  The monitor thread     *)
(* and stop_monitoring take no lock: each assignment to auth_token and to  *)
(* client_port is a step of its own.                                       *)
(* SpecCommands and SpecConnection are OBSClient with its threads: a       *)
(* thread is a record of what it runs, where it is and its argument, and   *)
(* the threads alive form a bag.  A step of a thread is what it does up    *)
(* to the next point where it waits: for a lock, or for peer-2 to answer.  *)
(* SpecCommands has the seven commands, SpecConnection the connection      *)
(* handlers; both have connect, disconnect, start, stop and keepalive.     *)
(* The variables of a component                                            *)
(* that a specification does not drive keep the values their constructor   *)
(* gave them.                                                              *)
(***************************************************************************)
EXTENDS Naturals, Sequences, FiniteSets, Bags

\* ------------------------------------------------------------------ bounds
\* gameflow events fed to GameTracker in specification Spec
MaxEvents == 2
\* RecordStateChanged events in flight from peer-2
MaxInFlight == 1
\* OBSClient worker threads alive at once
MaxWorkers == 1
\* (path, callback) registrations held by LCUApi at once
MaxSubs == 2
\* HTTPS requests LCUApi issues
MaxRequests == 2
\* command worker threads of OBSClient alive at once
MaxThreads == 2
\* messages peer-1 sends to the websocket thread of LCUApi
MaxFrames == 2

\* ------------------------------------------------------------- GamePhase
NONE == "NONE"
LOBBY == "LOBBY"
MATCHMAKING == "MATCHMAKING"
CHAMPION_SELECT == "CHAMPION_SELECT"
GAME_START == "GAME_START"
IN_GAME == "IN_GAME"
POST_GAME == "POST_GAME"

GamePhase == {NONE, LOBBY, MATCHMAKING, CHAMPION_SELECT, GAME_START, IN_GAME, POST_GAME}

\* --------------------------------------------------- peer-1 event payloads
\* Raw phase strings a gameflow session can carry: the nine keys of
\* phase_mapping, the spelling "HomeScreen", the literal "None", and one
\* string standing for every other value.
MappedRaw ==
    {"Home Screen", "Lobby", "Matchmaking", "ChampSelect", "GameStart",
     "InProgress", "WaitingForStats", "PreEndOfGame", "EndOfGame"}

RawPhases == MappedRaw \cup {"HomeScreen", "None", "TerminatedInError"}

\* a session object without a 'phase' key
NoPhaseField == "<no phase field>"
\* an event whose 'data' is null
NullData == "<data null>"

GameflowPayloads == RawPhases \cup {NoPhaseField, NullData}

\* result of api.get_current_gameflow(): {} or a session object
EmptyRead == "<empty>"
GameflowReads == RawPhases \cup {NoPhaseField, EmptyRead}

ProfileName == "League of Legends"
ProfileLists == {{}, {ProfileName}}

\* ---------------------------------------------------- peer-1 event frames
\* An event path is a string; its characters are drawn from two, and the
\* paths are the strings of up to two characters.
PathChars == {"g", "x"}

Paths == UNION {[1..n -> PathChars] : n \in 0..2}

\* the substring "OnJsonApiEvent_", taken as one character
Marker == "OnJsonApiEvent_"

\* data[0] of an event frame
EventOpcode == 8
\* data[0] of a subscribe frame
SubscribeOpcode == 5
\* len(data) of an event frame
EventFrameLen == 3

\* the event object of a frame, data[2]
EventData == "<event data>"

\* decoded frames: [opcode, topic, data] and a two element array
Frames ==
    {<<opcode, <<Marker>> \o path, EventData>> :
        opcode \in {EventOpcode, SubscribeOpcode}, path \in Paths}
    \cup {<<EventOpcode, <<Marker>> \o path>> : path \in Paths}

\* callback handles
Callbacks == {"h1", "h2"}

\* a message that is not JSON, one that is a JSON number, and a JSON string
\* in the place of the event object
NonJson == <<"<not JSON>">>
JsonNumber == <<"<JSON number>">>
JsonString == "<JSON string>"

\* the paths the websocket thread is given, as subscriptions and as events
ReceivePaths == {<<"g">>, <<"g", "x">>}

\* messages peer-1 sends to the websocket thread
Inbound ==
    {NonJson, JsonNumber}
    \cup {<<EventOpcode, <<Marker>> \o path, data>> :
             path \in ReceivePaths, data \in {EventData, JsonString}}
    \cup {<<SubscribeOpcode, <<Marker, "g">>, EventData>>, <<EventOpcode, <<Marker, "g">>>>}

\* ----------------------------------------------------- OBSClient threads
\* the command methods of OBSClient
Commands ==
    {"set_profile", "start_recording", "stop_recording", "get_profiles",
     "get_scene_list", "set_current_scene", "get_current_scene"}

NoArg == "-"
UnknownProfile == "Unknown"

\* the arguments of a command that matter: the profile name of set_profile
Args(kind) == IF kind = "set_profile" THEN {ProfileName, UnknownProfile} ELSE {NoArg}

\* callback arguments of connect: the caller's, or start()'s _on_connect_complete
ConnectCallbacks == {"callback", "_on_connect_complete"}

\* a thread: target, position and argument
Thread(kind, pc, arg) == [kind |-> kind, pc |-> pc, arg |-> arg]

\* ------------------------------------------------------------ credentials
None == "None"

\* host, port and password of peer-2: the defaults of OBSClient.__init__ and
\* another triple
DefaultSettings == "localhost:4455"
Settings == {DefaultSettings, "host:port, password"}

\* base64 of "riot:" + token, for two tokens
Tokens == {"cmlvdDox", "cmlvdDoy"}
\* --app-port of the League client
Ports == {"port 1", "port 2"}

\* what get_auth_data returns: (None, None) or a token and a port
AuthData == {<<None, None>>} \cup (Tokens \X Ports)

\* results of get_request and post_request
EmptyObject == "{}"
JsonObject == "<response.json()>"
NoResult == "<no call>"

VARIABLES
    \* GameTracker
    current_phase,          \* self.current_phase
    recording_started,      \* self.recording_started
    game_update_callback,   \* self._game_update_callback is not None
    \* OBSClient
    obs_connected,          \* self._connected
    obs_ws,                 \* self._ws: "None", "open" or "closed"
    obs_recording,          \* self._recording
    obs_profiles,           \* self._profiles
    obs_event_handlers,     \* len(self._event_handlers['RecordStateChanged'])
    workers,                \* recording worker threads spawned and not yet returned
    profile_workers,        \* set_profile worker threads spawned and not yet returned
    \* peer-2
    obsEvents,              \* RecordStateChanged events sent by peer-2, not yet delivered
    \* observation
    startReqs,              \* calls of obs.start_recording made by GameTracker
    stopReqs,               \* calls of obs.stop_recording made by GameTracker
    nNotif,                 \* invocations of the game update callback
    lastNotif,              \* 'phase' of the last notification
    nGameflow,              \* gameflow events handled
    flagSeen,               \* recording_started as read by each event of the scenario
    lastRaw,                \* payload of the last peer-1 event, if it was a gameflow event
    nRepeat,                \* gameflow events that carried the payload of the event before
    \* LCUApi
    api_event_handlers,     \* self._event_handlers: path -> list of callbacks
    api_frame,              \* the frame the receive loop handled last
    api_delivered,          \* callback(event_data) calls made for that frame
    api_call,               \* the last subscribe or unsubscribe call, if it was the last
                            \* step, and the list of its path before the call
    api_running,            \* self._running
    api_ws,                 \* self._ws: "None", "open" or "closed"
    api_is_connected,       \* self.is_connected
    api_subscribed,         \* self._subscribed
    api_sent,               \* paths whose subscribe frame was sent on the connection
                            \* made last
    ws_pc,                  \* the websocket thread: "none", "loop", "connect", "recv",
                            \* "dispatch", "finally", "ended"
    api_pending,            \* (path, callback) pairs the dispatch loops have yet to reach
    api_current,            \* number of the message the receive loop took last
    api_calls,              \* callback(event_data) calls made by the websocket thread
    \* peer-1
    peer_accepts,           \* peer-1 accepts connections and subscriptions
    peer_conn,              \* the connection as peer-1 has it: "none", "up", "down"
    peer_sent,              \* messages peer-1 has sent
    api_inbox,              \* messages sent on the connection and not yet received
    net_requests,           \* requests.get and requests.post calls made
    api_result,             \* what the last get_request or post_request returned
    \* LeagueClientAuth
    auth_token,             \* self.auth_token
    client_port,            \* self.client_port
    auth_monitoring,        \* self._monitoring
    auth_connected,         \* self._connected
    auth_callbacks,         \* self._connection_callbacks
    auth_invoked,           \* callback(state) calls made by the last operation on the callbacks
    monitor_pc,             \* the monitor thread in update_auth: "idle", "token", "port", "notify"
    monitor_new,            \* new_auth_token, new_client_port of that thread
    stop_pc,                \* a thread in stop_monitoring's finally clause: "idle", "token", "port"
    \* OBSClient with its threads
    obs_running,            \* self._running
    connection_lock,        \* self._connection_lock is held
    operation_lock,         \* self._operation_lock is held
    threads,                \* bag of the threads alive
    connection_handlers,    \* self._connection_handlers
    client_log,             \* returns and callback calls of the last step
    connect_trace,          \* what the connect worker that last held the connection lock did
    obs_settings,           \* self.host, self.port, self.password
    obs_session_settings,   \* host, port and password of the last obsws(...) call
    settings_pc             \* a caller of update_settings: "idle", "connect" (between
                            \* its two calls), "returned" (after its reconnect)

vars ==
    <<current_phase, recording_started, game_update_callback,
      obs_connected, obs_ws, obs_recording, obs_profiles, obs_event_handlers,
      workers, profile_workers, obsEvents, startReqs, stopReqs, nNotif, lastNotif, nGameflow,
      flagSeen, lastRaw, nRepeat,
      api_event_handlers, api_frame, api_delivered, net_requests, api_result,
      api_call, api_running, api_ws, api_is_connected, api_subscribed, api_sent, ws_pc,
      api_pending, api_current, api_calls, peer_accepts, peer_conn, peer_sent, api_inbox,
      auth_token, client_port, auth_monitoring, auth_connected, auth_callbacks,
      auth_invoked, monitor_pc, monitor_new, stop_pc,
      obs_running, connection_lock, operation_lock, threads, connection_handlers,
      client_log, connect_trace, obs_settings, obs_session_settings, settings_pc>>

trackerVars == <<current_phase, recording_started, game_update_callback>>
obsVars == <<obs_connected, obs_ws, obs_recording, obs_profiles, obs_event_handlers>>
requestVars == <<startReqs, stopReqs, workers>>
\* what a recording request of GameTracker may touch
recordingVars == <<startReqs, stopReqs, workers, recording_started>>
notifVars == <<nNotif, lastNotif>>
eventVars == <<nGameflow, flagSeen, lastRaw, nRepeat>>

\* LCUApi
\* LCUApi's websocket thread and peer-1
wsVars ==
    <<api_running, api_ws, api_is_connected, api_subscribed, api_sent, ws_pc, api_pending,
      api_current, api_calls, peer_accepts, peer_conn, peer_sent, api_inbox>>
apiVars == <<api_event_handlers, api_frame, api_delivered, api_call, wsVars>>
\* LCUApi's synchronous requests
httpVars == <<net_requests, api_result>>
\* LeagueClientAuth
authVars ==
    <<auth_token, client_port, auth_monitoring, auth_connected, auth_callbacks,
      auth_invoked, monitor_pc, monitor_new, stop_pc>>
\* OBSClient's threads and locks
clientVars ==
    <<obs_running, connection_lock, operation_lock, threads, connection_handlers,
      client_log, connect_trace, obs_settings, obs_session_settings, settings_pc>>
\* the components GameTracker's specifications do not drive
componentVars == <<apiVars, httpVars, authVars, clientVars>>
\* GameTracker, OBSClient as GameTracker drives it, and their observation
gameVars ==
    <<trackerVars, obsVars, workers, profile_workers, obsEvents, startReqs, stopReqs,
      notifVars, eventVars>>

NoEvent == "<none>"

\* no frame handled yet, or none since the table changed
NoFrame == <<>>

\* no callback(event_data) call
NoDelivery == [r \in Paths \X Callbacks |-> 0]

\* LCUApi.__init__; a path without a key is a path with an empty list
InitApi ==
    /\ api_event_handlers = [path \in Paths |-> <<>>]
    /\ api_frame = NoFrame
    /\ api_delivered = NoDelivery
    /\ api_call = <<>>
    /\ api_running = FALSE
    /\ api_ws = "None"
    /\ api_is_connected = FALSE
    /\ api_subscribed = FALSE
    /\ api_sent = {}
    /\ ws_pc = "none"
    /\ api_pending = <<>>
    /\ api_current = 0
    /\ api_calls = <<>>
    /\ peer_accepts = TRUE
    /\ peer_conn = "none"
    /\ peer_sent = 0
    /\ api_inbox = <<>>

\* LeagueClientAuth.__init__, and no request made yet
InitAuth ==
    /\ auth_token = None
    /\ client_port = None
    /\ auth_monitoring = FALSE
    /\ auth_connected = FALSE
    /\ auth_callbacks = <<>>
    /\ auth_invoked = <<>>
    /\ monitor_pc = "idle"
    /\ monitor_new = <<None, None>>
    /\ stop_pc = "idle"
    /\ net_requests = 0
    /\ api_result = NoResult

\* OBSClient.__init__: no thread yet
InitClient ==
    /\ obs_running = FALSE
    /\ connection_lock = FALSE
    /\ operation_lock = FALSE
    /\ threads = EmptyBag
    /\ connection_handlers = <<>>
    /\ client_log = <<>>
    /\ connect_trace = <<>>
    /\ obs_settings = DefaultSettings
    /\ obs_session_settings = None
    /\ settings_pc = "idle"

InitComponents == InitApi /\ InitAuth /\ InitClient

Init ==
    /\ current_phase = NONE
    /\ recording_started = FALSE
    /\ game_update_callback = FALSE
    /\ obs_connected = FALSE
    /\ obs_ws = "None"
    /\ obs_recording = FALSE
    /\ obs_profiles = {}
    /\ obs_event_handlers = 0
    /\ workers = [start |-> 0, stop |-> 0]
    /\ profile_workers = 0
    /\ obsEvents = <<>>
    /\ startReqs = 0
    /\ stopReqs = 0
    /\ nNotif = 0
    /\ lastNotif = NoEvent
    /\ nGameflow = 0
    /\ flagSeen = <<>>
    /\ lastRaw = NoEvent
    /\ nRepeat = 0
    /\ InitComponents

\* ------------------------------------------------------------ GameTracker

\* phase_mapping with the 'PreEndOfGame' entry left out
phase_mapping_NoPreEndOfGame(new_phase) ==
    CASE new_phase = "Home Screen" -> NONE
      [] new_phase = "Lobby" -> LOBBY
      [] new_phase = "Matchmaking" -> MATCHMAKING
      [] new_phase = "ChampSelect" -> CHAMPION_SELECT
      [] new_phase = "GameStart" -> GAME_START
      [] new_phase = "InProgress" -> IN_GAME
      [] new_phase = "WaitingForStats" -> POST_GAME
      [] new_phase = "EndOfGame" -> POST_GAME
      [] OTHER -> NONE

\* phase_mapping.get(new_phase, GamePhase.NONE)
phase_mapping(new_phase) ==
    CASE new_phase = "Home Screen" -> NONE
      [] new_phase = "Lobby" -> LOBBY
      [] new_phase = "Matchmaking" -> MATCHMAKING
      [] new_phase = "ChampSelect" -> CHAMPION_SELECT
      [] new_phase = "GameStart" -> GAME_START
      [] new_phase = "InProgress" -> IN_GAME
      [] new_phase = "WaitingForStats" -> POST_GAME
      [] new_phase = "PreEndOfGame" -> POST_GAME
      [] new_phase = "EndOfGame" -> POST_GAME
      [] OTHER -> NONE

\* game_data.get('phase', 'None')
phase_field(payload) == IF payload = NoPhaseField THEN "None" ELSE payload

\* OBSClient.start_recording: refused when not connected, else one worker thread
start_recording ==
    IF ~obs_connected
    THEN workers' = workers
    ELSE workers' = [workers EXCEPT !.start = @ + 1]

\* OBSClient.stop_recording: refused when not connected, else one worker thread
stop_recording ==
    IF ~obs_connected
    THEN workers' = workers
    ELSE workers' = [workers EXCEPT !.stop = @ + 1]

\* the guard of GameTracker._start_recording
start_recording_allowed == ~recording_started /\ obs_connected

\* the guard of _stop_recording without its test of the flag
stop_recording_allowed_IgnoresFlag == obs_connected

\* the guard of GameTracker._stop_recording
stop_recording_allowed == recording_started /\ obs_connected

\* _start_recording that sets the flag itself when it issues the request
_start_recording_Optimistic ==
    IF start_recording_allowed
    THEN /\ startReqs' = startReqs + 1
         /\ stopReqs' = stopReqs
         /\ start_recording
         /\ recording_started' = TRUE
    ELSE UNCHANGED recordingVars

\* GameTracker._start_recording
_start_recording ==
    IF start_recording_allowed
    THEN /\ startReqs' = startReqs + 1
         /\ stopReqs' = stopReqs
         /\ start_recording
         /\ recording_started' = recording_started
    ELSE UNCHANGED recordingVars

\* GameTracker._stop_recording
_stop_recording ==
    IF stop_recording_allowed
    THEN /\ stopReqs' = stopReqs + 1
         /\ startReqs' = startReqs
         /\ stop_recording
         /\ recording_started' = recording_started
    ELSE UNCHANGED recordingVars

\* _handle_phase_change with MATCHMAKING in the list of phases that stop
_handle_phase_change_StopsOnMatchmaking(new_phase) ==
    IF new_phase = CHAMPION_SELECT
    THEN _start_recording
    ELSE IF new_phase = IN_GAME
    THEN IF ~recording_started THEN _start_recording ELSE UNCHANGED recordingVars
    ELSE IF new_phase \in {NONE, LOBBY, MATCHMAKING, POST_GAME}
    THEN IF recording_started THEN _stop_recording ELSE UNCHANGED recordingVars
    ELSE UNCHANGED recordingVars

\* _handle_phase_change with POST_GAME missing from the list of phases that stop
_handle_phase_change_NoPostGame(new_phase) ==
    IF new_phase = CHAMPION_SELECT
    THEN _start_recording
    ELSE IF new_phase = IN_GAME
    THEN IF ~recording_started THEN _start_recording ELSE UNCHANGED recordingVars
    ELSE IF new_phase \in {NONE, LOBBY}
    THEN IF recording_started THEN _stop_recording ELSE UNCHANGED recordingVars
    ELSE UNCHANGED recordingVars

\* GameTracker._handle_phase_change
_handle_phase_change(new_phase) ==
    IF new_phase = CHAMPION_SELECT
    THEN _start_recording
    ELSE IF new_phase = IN_GAME
    THEN IF ~recording_started THEN _start_recording ELSE UNCHANGED recordingVars
    ELSE IF new_phase \in {NONE, LOBBY, POST_GAME}
    THEN IF recording_started THEN _stop_recording ELSE UNCHANGED recordingVars
    ELSE UNCHANGED recordingVars

\* a notification that carries the name of the mapped phase, not the raw string
notify_gameflow_Mapped(new_phase) ==
    IF game_update_callback
    THEN /\ nNotif' = nNotif + 1
         /\ lastNotif' = phase_mapping(new_phase)
    ELSE UNCHANGED notifVars

\* self._game_update_callback('gameflow', {'phase': new_phase, ...}); an
\* exception of the callback is caught and logged, the handler goes on
notify_gameflow(new_phase) ==
    IF game_update_callback
    THEN /\ nNotif' = nNotif + 1
         /\ lastNotif' = new_phase
    ELSE UNCHANGED notifVars

\* a handler that never stores the new phase
committed_phase_NotStored(new_game_phase) == current_phase

\* self.current_phase = new_game_phase
committed_phase(new_game_phase) == new_game_phase

\* GameTracker._handle_gameflow_update(data) on the tracker's own state
_handle_gameflow_update(payload) ==
    IF payload = NullData
    THEN \* game_data is None: AttributeError, caught and logged
         /\ UNCHANGED <<current_phase, notifVars, recordingVars>>
    ELSE LET new_phase == phase_field(payload)
             new_game_phase == phase_mapping(new_phase)
         IN  IF new_game_phase # current_phase
             THEN /\ notify_gameflow(new_phase)
                  /\ _handle_phase_change(new_game_phase)
                  /\ current_phase' = committed_phase(new_game_phase)
             ELSE UNCHANGED <<current_phase, notifVars, recordingVars>>

\* a gameflow event dispatched by peer-1's receive loop
Gameflow(payload) ==
    /\ _handle_gameflow_update(payload)
    /\ nGameflow' = nGameflow + 1
    /\ lastRaw' = payload
    /\ nRepeat' = IF lastRaw = payload THEN nRepeat + 1 ELSE nRepeat
    /\ UNCHANGED <<game_update_callback, obsVars, obsEvents,
                   profile_workers>>
    /\ UNCHANGED componentVars

\* GameTracker._handle_dodge
_handle_dodge ==
    /\ _stop_recording
    /\ current_phase' = NONE

\* GameTracker._handle_champselect_update(data); has_data: data.get('data') is truthy
_handle_champselect_update(has_data) ==
    IF ~has_data /\ current_phase = CHAMPION_SELECT
    THEN _handle_dodge
    ELSE UNCHANGED <<current_phase, recordingVars>>

\* a champ-select event dispatched by peer-1's receive loop
ChampSelect(has_data) ==
    /\ _handle_champselect_update(has_data)
    /\ lastRaw' = NoEvent
    /\ UNCHANGED <<game_update_callback, obsVars, obsEvents,
                   profile_workers, notifVars, nGameflow, flagSeen, nRepeat>>
    /\ UNCHANGED componentVars

\* GameTracker.register_game_update_callback
register_game_update_callback ==
    /\ game_update_callback' = TRUE
    /\ UNCHANGED <<current_phase, recording_started, obsVars,
                   obsEvents, requestVars, profile_workers, notifVars, eventVars>>
    /\ UNCHANGED componentVars

\* class GameTracker with the handler also defined under the name start() calls
GameTrackerMethods_WithGameflowUpdate ==
    {"__init__", "register_game_update_callback", "start", "stop",
     "_set_obs_profile", "_handle_gameflow_update", "_handle_champselect_update",
     "_handle_phase_change", "_handle_dodge", "_handle_recording_state",
     "_start_recording", "_stop_recording", "_gameflow_update"}

\* the methods class GameTracker defines
GameTrackerMethods ==
    {"__init__", "register_game_update_callback", "start", "stop",
     "_set_obs_profile", "_handle_gameflow_update", "_handle_champselect_update",
     "_handle_phase_change", "_handle_dodge", "_handle_recording_state",
     "_start_recording", "_stop_recording"}

\* OBSClient.set_profile: refused when not connected, else one worker thread
set_profile ==
    IF ~obs_connected
    THEN profile_workers' = profile_workers
    ELSE profile_workers' = profile_workers + 1

\* GameTracker._set_obs_profile
_set_obs_profile == set_profile

\* GameTracker.start(); gameflow: what api.get_current_gameflow() returned.
\* The try block calls self._gameflow_update; a name the class does not
\* define raises AttributeError, which the except clause logs.
start(gameflow) ==
    /\ IF gameflow # EmptyRead /\ "_gameflow_update" \in GameTrackerMethods
       THEN _handle_gameflow_update(gameflow)
       ELSE UNCHANGED <<current_phase, recordingVars, notifVars>>
    /\ IF obs_connected THEN _set_obs_profile ELSE profile_workers' = profile_workers
    /\ obs_event_handlers' = obs_event_handlers + 1
    /\ UNCHANGED <<game_update_callback, obs_connected, obs_ws,
                   obs_recording, obs_profiles, obsEvents, eventVars>>
    /\ UNCHANGED componentVars

\* GameTracker._handle_recording_state(is_recording)
_handle_recording_state(is_recording) ==
    recording_started' = is_recording

\* --------------------------------------------------------------- OBSClient

\* outcomes of self._ws.call(...): a response with a true status, a response
\* with a false status, or an exception
RpcOutcomes == {"ok", "error", "raise"}

\* the outcome of a call on the session handle: a call on None or on a closed
\* session raises
rpc(outcome) == IF obs_ws = "open" THEN outcome ELSE "raise"

\* peer-2 sends RecordStateChanged after it has served a StartRecord or
\* StopRecord request
confirm(outcome, outputActive) ==
    IF outcome = "ok"
    THEN obsEvents' = Append(obsEvents, outputActive)
    ELSE obsEvents' = obsEvents

\* a worker that takes any response for a success
start_recording_result_AnyResponse(outcome) ==
    IF outcome \in {"ok", "error"} THEN TRUE ELSE obs_recording

\* _recording after the worker of start_recording got its response
start_recording_result(outcome) == IF outcome = "ok" THEN TRUE ELSE obs_recording

\* _recording after the worker of stop_recording got its response
stop_recording_result(outcome) == IF outcome = "ok" THEN FALSE ELSE obs_recording

\* the worker thread _start_recording of OBSClient.start_recording
start_recording_worker(outcome) ==
    /\ workers.start > 0
    /\ Len(obsEvents) < MaxInFlight
    /\ workers' = [workers EXCEPT !.start = @ - 1]
    /\ obs_recording' = start_recording_result(rpc(outcome))
    /\ confirm(rpc(outcome), TRUE)
    /\ UNCHANGED <<trackerVars, obs_connected, obs_ws, obs_profiles, obs_event_handlers,
                   profile_workers, startReqs, stopReqs, notifVars, eventVars>>
    /\ UNCHANGED componentVars

\* the worker thread _stop_recording of OBSClient.stop_recording
stop_recording_worker(outcome) ==
    /\ workers.stop > 0
    /\ Len(obsEvents) < MaxInFlight
    /\ workers' = [workers EXCEPT !.stop = @ - 1]
    /\ obs_recording' = stop_recording_result(rpc(outcome))
    /\ confirm(rpc(outcome), FALSE)
    /\ UNCHANGED <<trackerVars, obs_connected, obs_ws, obs_profiles, obs_event_handlers,
                   profile_workers, startReqs, stopReqs, notifVars, eventVars>>
    /\ UNCHANGED componentVars

\* the worker thread _set_profile of OBSClient.set_profile: an unknown name
\* fails without a call; a call that returns is a success
set_profile_worker(outcome) ==
    /\ profile_workers > 0
    /\ profile_workers' = profile_workers - 1
    /\ UNCHANGED <<trackerVars, obsVars, workers, obsEvents, startReqs, stopReqs,
                   notifVars, eventVars>>
    /\ UNCHANGED componentVars

\* OBSClient._on_recording_state_changed(event) for the oldest event in flight
_on_recording_state_changed ==
    /\ obsEvents # <<>>
    /\ obs_ws = "open"
    /\ obs_recording' = Head(obsEvents)
    /\ IF obs_event_handlers > 0
       THEN _handle_recording_state(Head(obsEvents))
       ELSE recording_started' = recording_started
    /\ obsEvents' = Tail(obsEvents)
    /\ UNCHANGED <<current_phase, game_update_callback, obs_connected,
                   obs_ws, obs_profiles, obs_event_handlers, requestVars, profile_workers,
                   notifVars, eventVars>>
    /\ UNCHANGED componentVars

\* recording is started or stopped in peer-2 itself
RecordToggled(outputActive) ==
    /\ obs_ws = "open"
    /\ Len(obsEvents) < MaxInFlight
    /\ obsEvents' = Append(obsEvents, outputActive)
    /\ UNCHANGED <<trackerVars, obsVars, requestVars, profile_workers, notifVars,
                   eventVars>>
    /\ UNCHANGED componentVars

\* OBSClient.connect called while not connected: the worker _connect_thread.
\* ok: the session opened and GetVersion answered; profiles: GetProfileList.
connect(ok, profiles) ==
    /\ ~obs_connected
    /\ IF ok
       THEN /\ obs_ws' = "open"
            /\ obs_connected' = TRUE
            /\ obs_profiles' = profiles
       ELSE /\ obs_ws' = "closed"
            /\ obs_connected' = FALSE
            /\ obs_profiles' = obs_profiles
    /\ obsEvents' = <<>>
    /\ UNCHANGED <<trackerVars, obs_recording, obs_event_handlers, requestVars,
                   profile_workers, notifVars, eventVars>>
    /\ UNCHANGED componentVars

\* OBSClient.disconnect called while connected: the worker _disconnect_thread
disconnect ==
    /\ obs_connected
    /\ obs_ws' = "None"
    /\ obs_connected' = FALSE
    /\ obs_profiles' = {}
    /\ obs_recording' = FALSE
    /\ obsEvents' = <<>>
    /\ UNCHANGED <<trackerVars, obs_event_handlers, requestVars, profile_workers,
                   notifVars, eventVars>>
    /\ UNCHANGED componentVars

\* ------------------------------------------------------------------ LCUApi

\* str.startswith
startswith(string, prefix) ==
    /\ Len(prefix) <= Len(string)
    /\ SubSeq(string, 1, Len(prefix)) = prefix

IsNotMarker(char) == char # Marker

\* data[1].replace("OnJsonApiEvent_", ""): every occurrence is removed
replace(topic) == SelectSeq(topic, IsNotMarker)

\* the number of times callback occurs in a list of callbacks
count(callbacks, callback) ==
    Cardinality({i \in 1..Len(callbacks) : callbacks[i] = callback})

\* registrations held in self._event_handlers
registrations ==
    {r \in Paths \X Callbacks : count(api_event_handlers[r[1]], r[2]) > 0}

\* a _store_subscription without the test of line 130
_store_subscription_Always(event_path, callback) ==
    api_event_handlers' = [api_event_handlers EXCEPT ![event_path] = Append(@, callback)]

\* LCUApi._store_subscription
_store_subscription(event_path, callback) ==
    IF count(api_event_handlers[event_path], callback) = 0
    THEN api_event_handlers' =
             [api_event_handlers EXCEPT ![event_path] = Append(@, callback)]
    ELSE api_event_handlers' = api_event_handlers

\* event_paths = list(self._event_handlers.keys())
event_paths(handlers) == {path \in Paths : handlers[path] # <<>>}

\* if self.is_connected and not self._subscribed and self._ws
resubscribes == api_is_connected /\ ~api_subscribed /\ api_ws # "None"

\* LCUApi.subscribe; when connected and not subscribed _subscribe_to_events
\* is run on the loop of the websocket thread, and it sends one subscribe
\* frame for each path of the table
subscribe(event_path, callback) ==
    /\ _store_subscription(event_path, callback)
    /\ api_frame' = NoFrame
    /\ api_delivered' = NoDelivery
    /\ api_call' = <<"subscribe", event_path, callback, api_event_handlers[event_path]>>
    /\ IF resubscribes
       THEN IF api_ws = "open" /\ peer_conn = "up"
            THEN /\ api_subscribed' = TRUE
                 /\ api_sent' = api_sent \cup event_paths(api_event_handlers')
            ELSE /\ api_subscribed' = FALSE
                 /\ api_sent' = api_sent
       ELSE UNCHANGED <<api_subscribed, api_sent>>
    /\ UNCHANGED <<api_running, api_ws, api_is_connected, ws_pc, api_pending,
                   api_current, api_calls, peer_accepts, peer_conn, peer_sent, api_inbox>>
    /\ UNCHANGED <<gameVars, httpVars, authVars, clientVars>>

\* list.remove(callback): the first occurrence goes
remove(callbacks, callback) ==
    LET first == CHOOSE i \in 1..Len(callbacks) :
                     /\ callbacks[i] = callback
                     /\ \A j \in 1..(i - 1) : callbacks[j] # callback
    IN  SubSeq(callbacks, 1, first - 1) \o SubSeq(callbacks, first + 1, Len(callbacks))

\* callback argument of unsubscribe left out
AllCallbacks == "<None>"

\* LCUApi.unsubscribe; removing a callback that is not in the list raises
\* ValueError to the caller
unsubscribe(event_path, callback) ==
    /\ IF callback = AllCallbacks
       THEN api_event_handlers' = [api_event_handlers EXCEPT ![event_path] = <<>>]
       ELSE IF count(api_event_handlers[event_path], callback) > 0
       THEN api_event_handlers' =
                [api_event_handlers EXCEPT ![event_path] = remove(@, callback)]
       ELSE api_event_handlers' = api_event_handlers
    /\ api_frame' = NoFrame
    /\ api_delivered' = NoDelivery
    /\ api_call' = <<"unsubscribe", event_path, callback, api_event_handlers[event_path]>>
    /\ UNCHANGED <<wsVars, gameVars, httpVars, authVars, clientVars>>

\* startswith that asks for the whole path
path_matches_Exact(event_path, registered_path) == event_path = registered_path

\* event_path.startswith(registered_path)
path_matches(event_path, registered_path) == startswith(event_path, registered_path)

\* the loop over self._event_handlers.items(): callback(event_data) once for
\* each entry of the list of each matching path; an exception of a callback
\* is logged and the loop goes on
dispatch(event_path) ==
    [r \in Paths \X Callbacks |->
        IF path_matches(event_path, r[1])
        THEN count(api_event_handlers[r[1]], r[2])
        ELSE 0]

\* one round of the loop of LCUApi._handle_messages, for a frame that is JSON
_handle_messages(data) ==
    /\ api_frame' = data
    /\ IF Len(data) = EventFrameLen /\ data[1] = EventOpcode
       THEN api_delivered' = dispatch(replace(data[2]))
       ELSE api_delivered' = NoDelivery
    /\ api_call' = <<>>
    /\ UNCHANGED <<api_event_handlers, wsVars, gameVars, httpVars, authVars, clientVars>>

\* -------------------------------------------------------- LeagueClientAuth

\* LeagueClientAuth.is_client_running that looks at the token only
is_client_running_TokenOnly == auth_token # None

\* LeagueClientAuth.is_client_running: bool(self.auth_token and self.client_port)
is_client_running == auth_token # None /\ client_port # None

\* LeagueClientAuth.start_monitoring: the monitor thread starts
start_monitoring ==
    /\ ~auth_monitoring
    /\ monitor_pc = "idle"
    /\ auth_monitoring' = TRUE
    /\ UNCHANGED <<auth_token, client_port, auth_connected, auth_callbacks,
                   auth_invoked, monitor_pc, monitor_new, stop_pc>>
    /\ UNCHANGED <<gameVars, apiVars, httpVars, clientVars>>

\* update_auth up to its test: the monitor loop found _monitoring true,
\* get_auth_data returned new, and the values are compared with the fields
update_auth(new) ==
    /\ auth_monitoring
    /\ monitor_pc = "idle"
    /\ IF new[1] # auth_token \/ new[2] # client_port
       THEN /\ monitor_pc' = "token"
            /\ monitor_new' = new
       ELSE UNCHANGED <<monitor_pc, monitor_new>>
    /\ UNCHANGED <<auth_token, client_port, auth_monitoring, auth_connected,
                   auth_callbacks, auth_invoked, stop_pc>>
    /\ UNCHANGED <<gameVars, apiVars, httpVars, clientVars>>

\* update_auth: self.auth_token = new_auth_token
update_auth_token ==
    /\ monitor_pc = "token"
    /\ auth_token' = monitor_new[1]
    /\ monitor_pc' = "port"
    /\ UNCHANGED <<client_port, auth_monitoring, auth_connected, auth_callbacks,
                   auth_invoked, monitor_new, stop_pc>>
    /\ UNCHANGED <<gameVars, apiVars, httpVars, clientVars>>

\* update_auth: self.client_port = new_client_port
update_auth_port ==
    /\ monitor_pc = "port"
    /\ client_port' = monitor_new[2]
    /\ monitor_pc' = "notify"
    /\ UNCHANGED <<auth_token, auth_monitoring, auth_connected, auth_callbacks,
                   auth_invoked, monitor_new, stop_pc>>
    /\ UNCHANGED <<gameVars, apiVars, httpVars, clientVars>>

\* the calls callback(connected) of the loop over self._connection_callbacks
notified(connected) ==
    [i \in 1..Len(auth_callbacks) |-> <<auth_callbacks[i], connected>>]

\* LeagueClientAuth._notify_connection_callbacks
_notify_connection_callbacks(connected) ==
    /\ auth_connected' = connected
    /\ auth_invoked' = notified(connected)

\* LeagueClientAuth.connect
auth_connect ==
    IF auth_token # None /\ client_port # None
    THEN _notify_connection_callbacks(TRUE)
    ELSE UNCHANGED <<auth_connected, auth_invoked>>

\* LeagueClientAuth.disconnect
auth_disconnect == _notify_connection_callbacks(FALSE)

\* update_auth: the notification of the change
update_auth_notify ==
    /\ monitor_pc = "notify"
    /\ IF monitor_new[1] # None /\ monitor_new[2] # None
       THEN auth_connect
       ELSE auth_disconnect
    /\ monitor_pc' = "idle"
    /\ monitor_new' = <<None, None>>
    /\ UNCHANGED <<auth_token, client_port, auth_monitoring, auth_callbacks, stop_pc>>
    /\ UNCHANGED <<gameVars, apiVars, httpVars, clientVars>>

\* stop_monitoring up to its finally clause: _monitoring is cleared and the
\* monitor thread is given three seconds to end
stop_monitoring ==
    /\ stop_pc = "idle"
    /\ auth_monitoring' = FALSE
    /\ stop_pc' = "token"
    /\ UNCHANGED <<auth_token, client_port, auth_connected, auth_callbacks,
                   auth_invoked, monitor_pc, monitor_new>>
    /\ UNCHANGED <<gameVars, apiVars, httpVars, clientVars>>

\* stop_monitoring: self.auth_token = None
stop_monitoring_token ==
    /\ stop_pc = "token"
    /\ auth_token' = None
    /\ stop_pc' = "port"
    /\ UNCHANGED <<client_port, auth_monitoring, auth_connected, auth_callbacks,
                   auth_invoked, monitor_pc, monitor_new>>
    /\ UNCHANGED <<gameVars, apiVars, httpVars, clientVars>>

\* stop_monitoring: self.client_port = None
stop_monitoring_port ==
    /\ stop_pc = "port"
    /\ client_port' = None
    /\ stop_pc' = "idle"
    /\ UNCHANGED <<auth_token, auth_monitoring, auth_connected, auth_callbacks,
                   auth_invoked, monitor_pc, monitor_new>>
    /\ UNCHANGED <<gameVars, apiVars, httpVars, clientVars>>

\* a registration that replays the state only when it is connected
registration_replay_OnlyIfConnected(callback) ==
    IF auth_connected THEN << <<callback, TRUE>> >> ELSE <<>>

\* add_connection_callback: callback(self._connected)
registration_replay(callback) == << <<callback, auth_connected>> >>

\* LeagueClientAuth.add_connection_callback
add_connection_callback(callback) ==
    /\ IF count(auth_callbacks, callback) = 0
       THEN /\ auth_callbacks' = Append(auth_callbacks, callback)
            /\ auth_invoked' = registration_replay(callback)
       ELSE /\ auth_callbacks' = auth_callbacks
            /\ auth_invoked' = <<>>
    /\ UNCHANGED <<auth_token, client_port, auth_monitoring, auth_connected,
                   monitor_pc, monitor_new, stop_pc>>
    /\ UNCHANGED <<gameVars, apiVars, httpVars, clientVars>>

\* LeagueClientAuth.remove_connection_callback
remove_connection_callback(callback) ==
    /\ IF count(auth_callbacks, callback) > 0
       THEN auth_callbacks' = remove(auth_callbacks, callback)
       ELSE auth_callbacks' = auth_callbacks
    /\ auth_invoked' = <<>>
    /\ UNCHANGED <<auth_token, client_port, auth_monitoring, auth_connected,
                   monitor_pc, monitor_new, stop_pc>>
    /\ UNCHANGED <<gameVars, apiVars, httpVars, clientVars>>

\* outcomes of requests.get and requests.post: a 2xx response, or a
\* RequestException (transport error, or raise_for_status on another status)
HttpOutcomes == {"ok", "RequestException"}

\* LCUApi.get_request
get_request(outcome) ==
    /\ IF ~is_client_running
       THEN /\ api_result' = EmptyObject
            /\ net_requests' = net_requests
       ELSE /\ net_requests' = net_requests + 1
            /\ api_result' = IF outcome = "ok" THEN JsonObject ELSE EmptyObject
    /\ UNCHANGED <<gameVars, apiVars, authVars, clientVars>>

\* LCUApi.post_request; has_content: response.content is not empty
post_request(outcome, has_content) ==
    /\ IF ~is_client_running
       THEN /\ api_result' = EmptyObject
            /\ net_requests' = net_requests
       ELSE /\ net_requests' = net_requests + 1
            /\ api_result' = IF outcome = "ok" /\ has_content
                              THEN JsonObject
                              ELSE EmptyObject
    /\ UNCHANGED <<gameVars, apiVars, authVars, clientVars>>

\* ------------------------------------------- LCUApi's websocket thread

\* what the websocket thread and peer-1 leave alone
wsRest ==
    <<api_event_handlers, api_delivered, gameVars, httpVars, authVars, clientVars>>
wsUntouched == <<wsRest, api_sent>>

\* LCUApi.start: no-op when running, else the websocket thread starts
LCUApi_start ==
    /\ IF api_running
       THEN UNCHANGED <<api_running, ws_pc>>
       ELSE /\ api_running' = TRUE
            /\ ws_pc' = "loop"
    /\ api_frame' = NoFrame
    /\ api_call' = <<>>
    /\ UNCHANGED <<api_ws, api_is_connected, api_subscribed, api_pending, api_current,
                   api_calls, peer_accepts, peer_conn, peer_sent, api_inbox>>
    /\ UNCHANGED wsUntouched

\* LCUApi.stop: the flag is cleared; the thread is waited for five seconds
\* at most and the event loop is told to stop
LCUApi_stop ==
    /\ api_running' = FALSE
    /\ api_frame' = NoFrame
    /\ api_call' = <<>>
    /\ UNCHANGED <<api_ws, api_is_connected, api_subscribed, ws_pc, api_pending,
                   api_current, api_calls, peer_accepts, peer_conn, peer_sent, api_inbox>>
    /\ UNCHANGED wsUntouched

\* a loop that is left after one pass
after_finally_Ended == "ended"

\* the end of the try statement of _run_websocket_client: back to the while
after_finally == "loop"

\* _run_websocket_client at its while: self._running is tested
_run_websocket_client ==
    /\ ws_pc = "loop"
    /\ ws_pc' = IF api_running THEN "connect" ELSE "ended"
    /\ api_frame' = NoFrame
    /\ api_call' = <<>>
    /\ UNCHANGED <<api_running, api_ws, api_is_connected, api_subscribed, api_pending,
                   api_current, api_calls, peer_accepts, peer_conn, peer_sent, api_inbox>>
    /\ UNCHANGED wsUntouched

\* what websockets.connect and the subscribe frames come to
ConnectOutcomes == {"connected", "refused", "send raises"}

\* the while of _handle_messages: self._running and self._ws
receive_loop == IF api_running THEN "recv" ELSE "finally"

\* LCUApi._connect once the credentials are there: the connection is made
\* and the subscribe frames are sent, or the except clause clears the flags
\* and raises again, and _run_websocket_client sleeps five seconds
_connect(outcome) ==
    /\ ws_pc = "connect"
    /\ is_client_running
    /\ IF outcome = "connected"
       THEN /\ peer_accepts
            /\ api_ws' = "open"
            /\ api_is_connected' = TRUE
            /\ api_subscribed' = (registrations # {})
            /\ api_sent' = event_paths(api_event_handlers)
            /\ peer_conn' = "up"
            /\ ws_pc' = receive_loop
       ELSE /\ ~peer_accepts
            /\ outcome = "send raises" => registrations # {}
            /\ api_ws' = IF outcome = "refused" THEN api_ws ELSE "open"
            /\ api_is_connected' = FALSE
            /\ api_subscribed' = FALSE
            /\ api_sent' = IF outcome = "refused" THEN api_sent ELSE {}
            /\ peer_conn' = IF outcome = "refused" THEN peer_conn ELSE "down"
            /\ ws_pc' = "finally"
    /\ api_inbox' = IF outcome = "refused" THEN api_inbox ELSE <<>>
    /\ api_frame' = NoFrame
    /\ api_call' = <<>>
    /\ UNCHANGED <<api_running, api_pending, api_current, api_calls, peer_accepts,
                   peer_sent>>
    /\ UNCHANGED wsRest

\* the finally clause of _run_websocket_client: if self._ws: close
_run_websocket_client_finally ==
    /\ ws_pc = "finally"
    /\ api_ws' = IF api_ws = "None" THEN "None" ELSE "closed"
    /\ peer_conn' = IF peer_conn = "none" THEN "none" ELSE "down"
    /\ api_inbox' = <<>>
    /\ ws_pc' = after_finally
    /\ api_frame' = NoFrame
    /\ api_call' = <<>>
    /\ UNCHANGED <<api_running, api_is_connected, api_subscribed, api_pending,
                   api_current, api_calls, peer_accepts, peer_sent>>
    /\ UNCHANGED wsUntouched

\* what one round of the loop of _handle_messages does with a message:
\* "skip" (nothing is called), "dispatch", or "raise" (an exception that is
\* not JSONDecodeError leaves the loop)
message_effect(message) ==
    IF message = NonJson THEN "skip"
    ELSE IF message = JsonNumber THEN "raise"
    ELSE IF Len(message) # EventFrameLen \/ message[1] # EventOpcode THEN "skip"
    ELSE IF message[3] # EventData THEN "raise"
    ELSE "dispatch"

\* the (registered_path, callback) pairs the loops of lines 237 to 239 go
\* through for an event: the matching paths in the order of one iteration
\* of the dict, the callbacks of a path in the order of its list
Iterations(event_path) ==
    LET matching == {path \in Paths :
                        /\ path_matches(event_path, path)
                        /\ api_event_handlers[path] # <<>>}
        orders == {o \in [1..Cardinality(matching) -> matching] :
                      \A i, j \in 1..Cardinality(matching) : o[i] = o[j] => i = j}
        calls(path) ==
            [i \in 1..Len(api_event_handlers[path]) |->
                <<path, api_event_handlers[path][i]>>]
        RECURSIVE flat(_)
        flat(o) == IF o = <<>> THEN <<>> ELSE calls(Head(o)) \o flat(Tail(o))
    IN  {flat(o) : o \in orders}

\* a loop that takes the next message while callbacks are still to be called
receiving_Anytime == ws_pc \in {"recv", "dispatch"}

\* the websocket thread is at await self._ws.recv()
receiving == ws_pc = "recv"

\* one message is received by _handle_messages and looked at; the
\* callbacks of an event are called one by one afterwards
recv ==
    /\ receiving
    /\ api_inbox # <<>>
    /\ LET number == Head(api_inbox)[1]
           message == Head(api_inbox)[2]
       IN  /\ api_current' = number
           /\ api_frame' = message
           /\ IF message_effect(message) = "dispatch"
              THEN \E pending \in Iterations(replace(message[2])) :
                       /\ api_pending' = pending
                       /\ ws_pc' = IF pending = <<>> THEN receive_loop ELSE "dispatch"
              ELSE /\ api_pending' = <<>>
                   /\ ws_pc' = IF message_effect(message) = "raise"
                               THEN "finally"
                               ELSE receive_loop
    /\ api_inbox' = Tail(api_inbox)
    /\ api_call' = <<>>
    /\ UNCHANGED <<api_running, api_ws, api_is_connected, api_subscribed, api_calls,
                   peer_accepts, peer_conn, peer_sent>>
    /\ UNCHANGED wsUntouched

\* recv raises ConnectionClosed, or the event loop is stopped by stop():
\* _handle_messages is left
recv_raises ==
    /\ ws_pc = "recv"
    /\ api_inbox = <<>>
    /\ peer_conn = "down" \/ ~api_running
    /\ ws_pc' = "finally"
    /\ api_frame' = NoFrame
    /\ api_call' = <<>>
    /\ UNCHANGED <<api_running, api_ws, api_is_connected, api_subscribed, api_pending,
                   api_current, api_calls, peer_accepts, peer_conn, peer_sent, api_inbox>>
    /\ UNCHANGED wsUntouched

\* outcomes of callback(event_data)
CallbackOutcomes == {"returns", "raises"}

\* a dispatch that a callback's exception ends
remaining_callbacks_AbortOnRaise(outcome) ==
    IF outcome = "raises" THEN <<>> ELSE Tail(api_pending)

\* try: callback(event_data) except Exception: log; the loops go on
remaining_callbacks(outcome) == Tail(api_pending)

\* one callback(event_data) call of the dispatch loops
callback_call(outcome) ==
    /\ ws_pc = "dispatch"
    /\ api_pending # <<>>
    /\ api_calls' = Append(api_calls,
                           <<api_current, Head(api_pending)[1], Head(api_pending)[2], outcome>>)
    /\ api_pending' = remaining_callbacks(outcome)
    /\ ws_pc' = IF api_pending' = <<>> THEN receive_loop ELSE "dispatch"
    /\ api_call' = <<>>
    /\ UNCHANGED <<api_frame, api_running, api_ws, api_is_connected, api_subscribed,
                   api_current, peer_accepts, peer_conn, peer_sent, api_inbox>>
    /\ UNCHANGED wsUntouched

\* peer-1 sends a message on the connection
peer_send(message) ==
    /\ peer_conn = "up"
    /\ peer_sent' = peer_sent + 1
    /\ api_inbox' = Append(api_inbox, <<peer_sent + 1, message>>)
    /\ api_call' = <<>>
    /\ UNCHANGED <<api_frame, api_running, api_ws, api_is_connected, api_subscribed,
                   ws_pc, api_pending, api_current, api_calls, peer_accepts, peer_conn>>
    /\ UNCHANGED wsUntouched

\* peer-1 closes the connection
peer_close ==
    /\ peer_conn = "up"
    /\ peer_conn' = "down"
    /\ api_call' = <<>>
    /\ UNCHANGED <<api_frame, api_running, api_ws, api_is_connected, api_subscribed,
                   ws_pc, api_pending, api_current, api_calls, peer_accepts, peer_sent,
                   api_inbox>>
    /\ UNCHANGED wsUntouched

\* peer-1 starts or stops accepting connections
peer_toggle ==
    /\ peer_accepts' = ~peer_accepts
    /\ api_call' = <<>>
    /\ UNCHANGED <<api_frame, api_running, api_ws, api_is_connected, api_subscribed,
                   ws_pc, api_pending, api_current, api_calls, peer_conn, peer_sent,
                   api_inbox>>
    /\ UNCHANGED wsUntouched

\* ------------------------------------------------- OBSClient with threads

\* what the threads of OBSClient leave alone
clientRest ==
    <<trackerVars, obs_event_handlers, workers, profile_workers, obsEvents,
      startReqs, stopReqs, notifVars, eventVars, apiVars, httpVars, authVars>>
settingsVars == <<obs_settings, settings_pc>>
clientUntouched == <<clientRest, settingsVars, obs_session_settings>>

\* the threads alive that run target kind
alive(kind) == {st \in BagToSet(threads) : st.kind = kind}

spawn(st) == threads (+) SetToBag({st})
exit(st) == threads (-) SetToBag({st})
move(st, pc) == (threads (-) SetToBag({st})) (+) SetToBag({Thread(st.kind, pc, st.arg)})

\* the value a command hands its callback when it is refused or fails:
\* callback(False), callback([]) or callback("")
FailureValue(kind) ==
    CASE kind \in {"get_profiles", "get_scene_list"} -> "[]"
      [] kind = "get_current_scene" -> "''"
      [] OTHER -> "False"

\* a worker whose callback is called in the try block and again in the
\* except clause
callback_log_Twice(kind, arg, value) ==
    << <<"callback", kind, arg, value>>, <<"callback", kind, arg, FailureValue(kind)>> >>

\* if callback: callback(value), on the one path a call takes
callback_log(kind, arg, value) == << <<"callback", kind, arg, value>> >>

\* a test of the session handle in the place of the connected flag
command_refused_ChecksSession == obs_ws = "None"

\* if not self._connected
command_refused == ~obs_connected

\* a command method up to its return: set_profile, start_recording,
\* stop_recording, get_profiles, get_scene_list, set_current_scene,
\* get_current_scene
command(kind, arg) ==
    /\ IF command_refused
       THEN /\ threads' = threads
            /\ client_log' = callback_log(kind, arg, FailureValue(kind))
                                \o << <<"return", kind, arg, "False">> >>
       ELSE /\ threads' = spawn(Thread(kind, "lock", arg))
            /\ client_log' = << <<"return", kind, arg, "True">> >>
    /\ UNCHANGED <<obs_connected, obs_ws, obs_recording, obs_profiles, obs_running,
                   connection_lock, operation_lock, connection_handlers, connect_trace>>
    /\ UNCHANGED clientUntouched

\* a with statement that does not wait for the lock
operation_lock_free_Ignored == TRUE

\* with self._operation_lock can go on
operation_lock_free == ~operation_lock

\* a set_profile that takes every name
profile_known_Always(profile_name) == TRUE

\* profile_name in self._profiles
profile_known(profile_name) == profile_name \in obs_profiles

\* the worker of a command takes the operation lock and issues its RPC
\* call; the worker of set_profile first looks for the name in _profiles
worker_lock(st) ==
    /\ BagIn(st, threads)
    /\ st.kind \in Commands
    /\ st.pc = "lock"
    /\ operation_lock_free
    /\ IF st.kind = "set_profile" /\ ~profile_known(st.arg)
       THEN /\ threads' = exit(st)
            /\ operation_lock' = operation_lock
            /\ client_log' = callback_log(st.kind, st.arg, "False")
       ELSE /\ threads' = move(st, "call")
            /\ operation_lock' = TRUE
            /\ client_log' = << <<"rpc", st.kind, st.arg, "call">> >>
    /\ UNCHANGED <<obs_connected, obs_ws, obs_recording, obs_profiles, obs_running,
                   connection_lock, connection_handlers, connect_trace>>
    /\ UNCHANGED clientUntouched

\* what the worker of a command hands the callback after its RPC call
command_result(kind, outcome) ==
    CASE kind \in {"start_recording", "stop_recording"} ->
             IF outcome = "ok" THEN "True" ELSE "False"
      [] kind \in {"set_profile", "set_current_scene"} ->
             IF outcome = "raise" THEN "False" ELSE "True"
      [] kind = "get_profiles" -> IF outcome = "ok" THEN "profiles" ELSE "[]"
      [] kind = "get_scene_list" -> IF outcome = "ok" THEN "scenes" ELSE "[]"
      [] kind = "get_current_scene" -> IF outcome = "ok" THEN "scene" ELSE "''"

\* the RPC call of a command worker returns or raises: the worker stores
\* what its command stores, calls the callback and leaves the lock
worker_return(st, outcome, profiles) ==
    /\ BagIn(st, threads)
    /\ st.kind \in Commands
    /\ st.pc = "call"
    /\ obs_recording' =
           CASE st.kind = "start_recording" -> start_recording_result(rpc(outcome))
             [] st.kind = "stop_recording" -> stop_recording_result(rpc(outcome))
             [] OTHER -> obs_recording
    /\ obs_profiles' =
           IF st.kind = "get_profiles" /\ rpc(outcome) = "ok"
           THEN profiles
           ELSE obs_profiles
    /\ client_log' = callback_log(st.kind, st.arg, command_result(st.kind, rpc(outcome)))
    /\ operation_lock' = FALSE
    /\ threads' = exit(st)
    /\ UNCHANGED <<obs_connected, obs_ws, obs_running, connection_lock,
                   connection_handlers, connect_trace>>
    /\ UNCHANGED clientUntouched

Keepalive == Thread("keepalive", "loop", NoArg)
KeepaliveCall == Thread("keepalive", "call", NoArg)

\* _keepalive_loop at its while: it goes on to take the lock and call
\* GetVersion, or it ends and clears the connected flag
_keepalive_loop ==
    /\ BagIn(Keepalive, threads)
    /\ IF obs_running /\ obs_connected
       THEN /\ operation_lock_free
            /\ operation_lock' = TRUE
            /\ threads' = move(Keepalive, "call")
            /\ client_log' = << <<"rpc", "keepalive", NoArg, "call">> >>
            /\ obs_connected' = obs_connected
       ELSE /\ operation_lock' = operation_lock
            /\ threads' = exit(Keepalive)
            /\ client_log' = <<>>
            /\ obs_connected' = FALSE
    /\ UNCHANGED <<obs_ws, obs_recording, obs_profiles, obs_running,
                   connection_lock, connection_handlers, connect_trace>>
    /\ UNCHANGED clientUntouched

\* a loop that swallows the exception and goes on
keepalive_broken_Never(outcome) == FALSE

\* except Exception: break
keepalive_broken(outcome) == rpc(outcome) = "raise"

\* the GetVersion call of _keepalive_loop returns or raises
_keepalive_loop_return(outcome) ==
    /\ BagIn(KeepaliveCall, threads)
    /\ operation_lock' = FALSE
    /\ client_log' = << <<"rpc", "keepalive", NoArg, rpc(outcome)>> >>
    /\ IF keepalive_broken(outcome)
       THEN /\ threads' = exit(KeepaliveCall)
            /\ obs_connected' = FALSE
       ELSE /\ threads' = move(KeepaliveCall, "loop")
            /\ obs_connected' = obs_connected
    /\ UNCHANGED <<obs_ws, obs_recording, obs_profiles, obs_running,
                   connection_lock, connection_handlers, connect_trace>>
    /\ UNCHANGED clientUntouched

\* OBSClient.start called while not running: connect with the callback
\* _on_connect_complete, which is called at once when already connected
OBSClient_start ==
    /\ ~obs_running
    /\ obs_running' = TRUE
    /\ IF obs_connected
       THEN threads' = spawn(Keepalive)
       ELSE threads' = spawn(Thread("connect", "lock", "_on_connect_complete"))
    /\ client_log' = << <<"return", "start", NoArg, "True">> >>
    /\ UNCHANGED <<obs_connected, obs_ws, obs_recording, obs_profiles,
                   connection_lock, operation_lock, connection_handlers, connect_trace>>
    /\ UNCHANGED clientUntouched

\* OBSClient.connect(callback) up to its return
OBSClient_connect ==
    /\ IF obs_connected
       THEN /\ threads' = threads
            /\ client_log' = << <<"callback", "connect", NoArg, "True">>,
                                <<"return", "connect", NoArg, "True">> >>
       ELSE /\ threads' = spawn(Thread("connect", "lock", "callback"))
            /\ client_log' = << <<"return", "connect", NoArg, "True">> >>
    /\ UNCHANGED <<obs_connected, obs_ws, obs_recording, obs_profiles, obs_running,
                   connection_lock, operation_lock, connection_handlers, connect_trace>>
    /\ UNCHANGED clientUntouched

\* _connect_thread takes the connection lock and makes the session object
\* from host, port and password
_connect_thread_lock(st) ==
    /\ BagIn(st, threads)
    /\ st.kind = "connect"
    /\ st.pc = "lock"
    /\ ~connection_lock
    /\ connection_lock' = TRUE
    /\ obs_ws' = "closed"
    /\ obs_session_settings' = obs_settings
    /\ connect_trace' = <<>>
    /\ threads' = move(st, "open")
    /\ client_log' = <<>>
    /\ UNCHANGED <<obs_connected, obs_recording, obs_profiles, obs_running,
                   operation_lock, connection_handlers>>
    /\ UNCHANGED <<clientRest, settingsVars>>

\* the threads after the callback of connect got success: the caller's
\* callback starts nothing, _on_connect_complete starts the keepalive thread
\* on success
after_connect_callback(st, success) ==
    IF st.arg = "_on_connect_complete" /\ success
    THEN exit(st) (+) SetToBag({Keepalive})
    ELSE exit(st)

\* _running after the callback of connect: _on_connect_complete clears it
\* on failure
running_after_connect_callback(st, success) ==
    IF st.arg = "_on_connect_complete" /\ ~success THEN FALSE ELSE obs_running

\* how far _connect_thread gets: self._ws.connect() raises, the GetVersion
\* call raises, it returns a response that is falsy, or it returns a response
ConnectSteps == {"connect raises", "GetVersion raises", "no response", "response"}

\* an except clause that leaves the callback out
connect_failure_trace_NoCallback == << <<"_connected", NoArg, "False">> >>

\* the except clause of _connect_thread: self._connected = False, then
\* callback(False)
connect_failure_trace ==
    << <<"_connected", NoArg, "False">>, <<"callback", NoArg, "False">> >>

\* _connect_thread: self._ws.connect() and the GetVersion call return or
\* raise.  On success the flag is set and _update_profiles comes next; on
\* failure the except clause runs to its end.
_connect_thread_open(st, step) ==
    /\ BagIn(st, threads)
    /\ st.kind = "connect"
    /\ st.pc = "open"
    /\ IF step = "response"
       THEN /\ obs_ws' = "open"
            /\ obs_connected' = TRUE
            /\ connect_trace' = Append(connect_trace, <<"_connected", NoArg, "True">>)
            /\ threads' = move(st, "profiles")
            /\ UNCHANGED <<connection_lock, obs_running>>
       ELSE /\ obs_ws' = "closed"
            /\ obs_connected' = FALSE
            /\ connect_trace' = connect_trace \o connect_failure_trace
            /\ threads' = after_connect_callback(st, FALSE)
            /\ obs_running' = running_after_connect_callback(st, FALSE)
            /\ connection_lock' = FALSE
    /\ client_log' = << <<"rpc", "connect", NoArg, step>> >>
    /\ UNCHANGED <<obs_recording, obs_profiles, operation_lock, connection_handlers>>
    /\ UNCHANGED clientUntouched

\* an _update_profiles that takes the connection lock, which its caller holds
_update_profiles_lock_ConnectionLock(st) ==
    /\ BagIn(st, threads)
    /\ st.kind = "connect"
    /\ st.pc = "profiles"
    /\ ~connection_lock
    /\ threads' = move(st, "profiles_call")
    /\ client_log' = << <<"rpc", "connect", NoArg, "call">> >>
    /\ UNCHANGED <<obs_connected, obs_ws, obs_recording, obs_profiles, obs_running,
                   connection_lock, operation_lock, connection_handlers, connect_trace>>
    /\ UNCHANGED clientUntouched

\* _update_profiles, called by _connect_thread, takes the operation lock and
\* calls GetProfileList
_update_profiles_lock(st) ==
    /\ BagIn(st, threads)
    /\ st.kind = "connect"
    /\ st.pc = "profiles"
    /\ operation_lock_free
    /\ operation_lock' = TRUE
    /\ threads' = move(st, "profiles_call")
    /\ client_log' = << <<"rpc", "connect", NoArg, "call">> >>
    /\ UNCHANGED <<obs_connected, obs_ws, obs_recording, obs_profiles, obs_running,
                   connection_lock, connection_handlers, connect_trace>>
    /\ UNCHANGED clientUntouched

\* the calls handler(connected) of _notify_connection_state; an exception
\* of a handler is logged and the loop goes on
connection_notified(connected) ==
    [i \in 1..Len(connection_handlers) |-> <<"handler", connection_handlers[i], connected>>]

\* a connect worker that calls the caller's callback first
connect_success_trace_CallbackFirst ==
    << <<"callback", NoArg, "True">> >> \o connection_notified("True")

\* _connect_thread after _update_profiles:
\* self._notify_connection_state(True), then callback(True)
connect_success_trace ==
    connection_notified("True") \o << <<"callback", NoArg, "True">> >>

\* the GetProfileList call of _update_profiles returns or raises, and
\* _connect_thread runs to its end
_connect_thread_finish(st, outcome, profiles) ==
    /\ BagIn(st, threads)
    /\ st.kind = "connect"
    /\ st.pc = "profiles_call"
    /\ obs_profiles' = IF rpc(outcome) = "ok" THEN profiles ELSE {}
    /\ operation_lock' = FALSE
    /\ connect_trace' = connect_trace \o connect_success_trace
    /\ threads' = after_connect_callback(st, TRUE)
    /\ obs_running' = running_after_connect_callback(st, TRUE)
    /\ connection_lock' = FALSE
    /\ client_log' = <<>>
    /\ UNCHANGED <<obs_connected, obs_ws, obs_recording, connection_handlers>>
    /\ UNCHANGED clientUntouched

\* OBSClient.disconnect(callback) up to its return
OBSClient_disconnect ==
    /\ IF ~obs_connected
       THEN /\ threads' = threads
            /\ client_log' = << <<"callback", "disconnect", NoArg, "True">>,
                                <<"return", "disconnect", NoArg, "True">> >>
       ELSE /\ threads' = spawn(Thread("disconnect", "lock", NoArg))
            /\ client_log' = << <<"return", "disconnect", NoArg, "True">> >>
    /\ UNCHANGED <<obs_connected, obs_ws, obs_recording, obs_profiles, obs_running,
                   connection_lock, operation_lock, connection_handlers, connect_trace>>
    /\ UNCHANGED clientUntouched

\* _disconnect_thread takes the connection lock, waits no longer than two
\* seconds for the keepalive thread, closes and clears the session and
\* clears the cached state
_disconnect_thread(st) ==
    /\ BagIn(st, threads)
    /\ st.kind = "disconnect"
    /\ st.pc = "lock"
    /\ ~connection_lock
    /\ connection_lock' = TRUE
    /\ obs_running' = FALSE
    /\ obs_ws' = "None"
    /\ obs_connected' = FALSE
    /\ obs_profiles' = {}
    /\ obs_recording' = FALSE
    /\ client_log' = <<>>
    /\ threads' = move(st, "notify")
    /\ UNCHANGED <<operation_lock, connection_handlers, connect_trace>>
    /\ UNCHANGED clientUntouched

\* a worker that calls the callback before the handlers
disconnect_trace_CallbackFirst ==
    << <<"callback", "disconnect", NoArg, "True">> >> \o connection_notified("False")

\* _disconnect_thread after the teardown:
\* self._notify_connection_state(False), then callback(True)
disconnect_trace ==
    connection_notified("False") \o << <<"callback", "disconnect", NoArg, "True">> >>

\* _disconnect_thread notifies, calls the callback and leaves the lock
_disconnect_thread_notify(st) ==
    /\ BagIn(st, threads)
    /\ st.kind = "disconnect"
    /\ st.pc = "notify"
    /\ client_log' = disconnect_trace
    /\ connection_lock' = FALSE
    /\ threads' = exit(st)
    /\ UNCHANGED <<obs_connected, obs_ws, obs_recording, obs_profiles, obs_running,
                   operation_lock, connection_handlers, connect_trace>>
    /\ UNCHANGED clientUntouched

\* OBSClient.stop called while running: it takes no lock
OBSClient_stop ==
    /\ obs_running
    /\ obs_running' = FALSE
    /\ obs_ws' = "None"
    /\ obs_connected' = FALSE
    /\ client_log' = << <<"return", "stop", NoArg, "True">> >>
    /\ UNCHANGED <<obs_recording, obs_profiles, connection_lock, operation_lock,
                   threads, connection_handlers, connect_trace>>
    /\ UNCHANGED clientUntouched

\* a registration that never calls the handler
handler_replay_Never(handler) == <<>>

\* add_connection_handler: if self._connected: handler(True)
handler_replay(handler) ==
    IF obs_connected THEN << <<"handler", handler, "True">> >> ELSE <<>>

\* OBSClient.add_connection_handler
add_connection_handler(handler) ==
    /\ IF count(connection_handlers, handler) = 0
       THEN /\ connection_handlers' = Append(connection_handlers, handler)
            /\ client_log' = handler_replay(handler)
       ELSE /\ connection_handlers' = connection_handlers
            /\ client_log' = <<>>
    /\ UNCHANGED <<obs_connected, obs_ws, obs_recording, obs_profiles, obs_running,
                   connection_lock, operation_lock, threads, connect_trace>>
    /\ UNCHANGED clientUntouched

\* OBSClient.update_settings up to its call of connect: the settings are
\* stored and, when connected, disconnect() starts its worker
update_settings(new) ==
    /\ settings_pc # "connect"
    /\ obs_settings' = new
    /\ IF obs_connected
       THEN /\ threads' = spawn(Thread("disconnect", "lock", NoArg))
            /\ settings_pc' = "connect"
       ELSE /\ threads' = threads
            /\ settings_pc' = "idle"
    /\ client_log' = <<>>
    /\ UNCHANGED <<obs_connected, obs_ws, obs_recording, obs_profiles, obs_running,
                   connection_lock, operation_lock, connection_handlers, connect_trace,
                   obs_session_settings>>
    /\ UNCHANGED clientRest

\* update_settings: self.connect(), with no callback, and the return
update_settings_connect ==
    /\ settings_pc = "connect"
    /\ settings_pc' = "returned"
    /\ IF obs_connected
       THEN threads' = threads
       ELSE threads' = spawn(Thread("connect", "lock", "callback"))
    /\ client_log' = << <<"return", "update_settings", NoArg, "None">> >>
    /\ UNCHANGED <<obs_connected, obs_ws, obs_recording, obs_profiles, obs_running,
                   connection_lock, operation_lock, connection_handlers, connect_trace,
                   obs_settings, obs_session_settings>>
    /\ UNCHANGED clientRest

\* ---------------------------------------------------------- specifications

\* the scenario of the specification's section 8
Scenario == <<"HomeScreen", "Lobby", "ChampSelect", "InProgress", "WaitingForStats">>

\* the environment feeds any gameflow payload
GameflowEvent ==
    \E payload \in GameflowPayloads :
        /\ nGameflow < MaxEvents
        /\ workers.start + workers.stop < MaxWorkers
        /\ Gameflow(payload)
        /\ flagSeen' = flagSeen

ChampSelectEvent == \E has_data \in BOOLEAN : ChampSelect(has_data)

\* Application.start calls tracker.start() once
Start ==
    \E gameflow \in GameflowReads :
        /\ obs_event_handlers = 0
        /\ start(gameflow)

StartRecordingWorker == \E outcome \in RpcOutcomes : start_recording_worker(outcome)

StopRecordingWorker == \E outcome \in RpcOutcomes : stop_recording_worker(outcome)

SetProfileWorker == \E outcome \in RpcOutcomes : set_profile_worker(outcome)

RecordToggledEvent == \E outputActive \in BOOLEAN : RecordToggled(outputActive)

Connect == \E ok \in BOOLEAN, profiles \in ProfileLists : connect(ok, profiles)

Next ==
    \/ register_game_update_callback
    \/ Start
    \/ GameflowEvent
    \/ ChampSelectEvent
    \/ StartRecordingWorker
    \/ StopRecordingWorker
    \/ SetProfileWorker
    \/ _on_recording_state_changed
    \/ RecordToggledEvent
    \/ Connect
    \/ disconnect

Spec == Init /\ [][Next]_vars

\* The scenario: peer-2 is connected, the presentation layer has registered
\* its callback and start() has run (with or without a profile request in
\* flight); then the five gameflow events arrive in order, while the
\* recording workers and RecordStateChanged deliveries fall anywhere.
InitScenario ==
    /\ current_phase = NONE
    /\ recording_started = FALSE
    /\ game_update_callback = TRUE
    /\ obs_connected = TRUE
    /\ obs_ws = "open"
    /\ obs_recording = FALSE
    /\ obs_profiles \in ProfileLists
    /\ obs_event_handlers = 1
    /\ workers = [start |-> 0, stop |-> 0]
    /\ profile_workers \in {0, 1}
    /\ obsEvents = <<>>
    /\ startReqs = 0
    /\ stopReqs = 0
    /\ nNotif = 0
    /\ lastNotif = NoEvent
    /\ nGameflow = 0
    /\ flagSeen = <<>>
    /\ lastRaw = NoEvent
    /\ nRepeat = 0
    /\ InitComponents

ScenarioEvent ==
    /\ nGameflow < Len(Scenario)
    /\ Gameflow(Scenario[nGameflow + 1])
    /\ flagSeen' = Append(flagSeen, recording_started)

NextScenario ==
    \/ ScenarioEvent
    \/ StartRecordingWorker
    \/ StopRecordingWorker
    \/ SetProfileWorker
    \/ _on_recording_state_changed

SpecScenario == InitScenario /\ [][NextScenario]_vars

\* LCUApi: callers subscribe and unsubscribe, peer-1 sends frames
Subscribe ==
    \E event_path \in Paths, callback \in Callbacks :
        /\ Cardinality(registrations) < MaxSubs
        /\ subscribe(event_path, callback)

Unsubscribe ==
    \E event_path \in Paths, callback \in Callbacks \cup {AllCallbacks} :
        unsubscribe(event_path, callback)

Receive == \E data \in Frames : _handle_messages(data)

NextApi ==
    \/ Subscribe
    \/ Unsubscribe
    \/ Receive

SpecApi == Init /\ [][NextApi]_vars

\* LeagueClientAuth: the monitor thread, a thread that stops the monitor,
\* threads that register callbacks and threads that make requests
UpdateAuth == \E new \in AuthData : update_auth(new)

AddConnectionCallback == \E callback \in Callbacks : add_connection_callback(callback)

RemoveConnectionCallback ==
    \E callback \in Callbacks : remove_connection_callback(callback)

GetRequest ==
    \E outcome \in HttpOutcomes :
        /\ net_requests < MaxRequests
        /\ get_request(outcome)

PostRequest ==
    \E outcome \in HttpOutcomes, has_content \in BOOLEAN :
        /\ net_requests < MaxRequests
        /\ post_request(outcome, has_content)

NextAuth ==
    \/ start_monitoring
    \/ UpdateAuth
    \/ update_auth_token
    \/ update_auth_port
    \/ update_auth_notify
    \/ stop_monitoring
    \/ stop_monitoring_token
    \/ stop_monitoring_port
    \/ AddConnectionCallback
    \/ RemoveConnectionCallback
    \/ GetRequest
    \/ PostRequest

SpecAuth == Init /\ [][NextAuth]_vars

\* OBSClient: callers and the threads they start.  One connect worker, one
\* disconnect worker and one keepalive thread are alive at a time.
CommandThreads == {st \in BagToSet(threads) : st.kind \in Commands}

CommandThreadsAlive ==
    BagCardinality(threads) - Cardinality(BagToSet(threads) \ CommandThreads)

Command ==
    \E kind \in Commands :
        \E arg \in Args(kind) :
            /\ CommandThreadsAlive < MaxThreads
            /\ command(kind, arg)

WorkerLock == \E st \in BagToSet(threads) : worker_lock(st)

\* the profile list matters to get_profiles alone
WorkerReturn ==
    \E st \in BagToSet(threads), outcome \in RpcOutcomes :
        \E profiles \in (IF st.kind = "get_profiles" /\ outcome = "ok"
                          THEN ProfileLists
                          ELSE {{}}) :
            worker_return(st, outcome, profiles)

KeepaliveReturn == \E outcome \in RpcOutcomes : _keepalive_loop_return(outcome)

ClientStart ==
    /\ alive("keepalive") = {}
    /\ alive("connect") = {}
    /\ OBSClient_start

ClientConnect ==
    /\ alive("connect") = {}
    /\ OBSClient_connect

ConnectThreadLock == \E st \in BagToSet(threads) : _connect_thread_lock(st)

ConnectThreadOpen ==
    \E st \in BagToSet(threads), step \in ConnectSteps : _connect_thread_open(st, step)

UpdateProfilesLock == \E st \in BagToSet(threads) : _update_profiles_lock(st)

ConnectThreadFinish ==
    \E st \in BagToSet(threads), outcome \in RpcOutcomes :
        \E profiles \in (IF outcome = "ok" THEN ProfileLists ELSE {{}}) :
            _connect_thread_finish(st, outcome, profiles)

ClientDisconnect ==
    /\ alive("disconnect") = {}
    /\ OBSClient_disconnect

DisconnectThread == \E st \in BagToSet(threads) : _disconnect_thread(st)

DisconnectThreadNotify == \E st \in BagToSet(threads) : _disconnect_thread_notify(st)

AddConnectionHandler == \E handler \in Callbacks : add_connection_handler(handler)

NextCommands ==
    \/ Command
    \/ WorkerLock
    \/ WorkerReturn
    \/ _keepalive_loop
    \/ KeepaliveReturn
    \/ ClientStart
    \/ ClientConnect
    \/ ConnectThreadLock
    \/ ConnectThreadOpen
    \/ UpdateProfilesLock
    \/ ConnectThreadFinish
    \/ ClientDisconnect
    \/ DisconnectThread
    \/ DisconnectThreadNotify
    \/ OBSClient_stop

SpecCommands == Init /\ [][NextCommands]_vars

\* the steps of the threads of OBSClient
ThreadSteps ==
    \/ WorkerLock
    \/ WorkerReturn
    \/ _keepalive_loop
    \/ KeepaliveReturn
    \/ ConnectThreadLock
    \/ ConnectThreadOpen
    \/ UpdateProfilesLock
    \/ ConnectThreadFinish
    \/ DisconnectThread
    \/ DisconnectThreadNotify

NextConnection ==
    \/ AddConnectionHandler
    \/ _keepalive_loop
    \/ KeepaliveReturn
    \/ ClientStart
    \/ ClientConnect
    \/ ConnectThreadLock
    \/ ConnectThreadOpen
    \/ UpdateProfilesLock
    \/ ConnectThreadFinish
    \/ ClientDisconnect
    \/ DisconnectThread
    \/ DisconnectThreadNotify
    \/ OBSClient_stop

SpecConnection == Init /\ [][NextConnection]_vars

\* OBSClient: a caller that connects and then changes the settings of a
\* client at rest, and makes no other call until the workers have ended
ConnectFirst ==
    /\ settings_pc = "idle"
    /\ ClientConnect

UpdateSettings ==
    \E new \in Settings :
        /\ threads = EmptyBag
        /\ update_settings(new)

NextSettings ==
    \/ ConnectFirst
    \/ ConnectThreadLock
    \/ ConnectThreadOpen
    \/ UpdateProfilesLock
    \/ ConnectThreadFinish
    \/ UpdateSettings
    \/ update_settings_connect
    \/ DisconnectThread
    \/ DisconnectThreadNotify
    \/ AddConnectionHandler

SpecSettings == Init /\ [][NextSettings]_vars

\* OBSClient: callers that call connect and disconnect at any time
ConnectCall ==
    /\ BagCardinality(threads) < MaxThreads
    /\ OBSClient_connect

NextSessions ==
    \/ ConnectCall
    \/ ConnectThreadLock
    \/ ConnectThreadOpen
    \/ UpdateProfilesLock
    \/ ConnectThreadFinish
    \/ ClientDisconnect
    \/ DisconnectThread
    \/ DisconnectThreadNotify
    \/ AddConnectionHandler

SpecSessions == Init /\ [][NextSessions]_vars

\* OBSClient: callers that call start, stop, connect and disconnect at any
\* time; the joins of stop and of the disconnect worker may time out
StartCall ==
    /\ BagCardinality(threads) < MaxThreads
    /\ OBSClient_start

NextKeepalive ==
    \/ StartCall
    \/ OBSClient_stop
    \/ ClientConnect
    \/ ConnectThreadLock
    \/ ConnectThreadOpen
    \/ UpdateProfilesLock
    \/ ConnectThreadFinish
    \/ _keepalive_loop
    \/ KeepaliveReturn
    \/ ClientDisconnect
    \/ DisconnectThread
    \/ DisconnectThreadNotify

SpecKeepalive == Init /\ [][NextKeepalive]_vars

\* OBSClient: callers of the commands, of connect and of disconnect.  A
\* thread that can go on does go on, and a worker that finds the operation
\* lock free again and again takes it in the end.
CalledCommands == {"set_profile", "start_recording", "get_profiles", "set_current_scene"}

CommandCall ==
    \E kind \in CalledCommands :
        \E arg \in Args(kind) :
            /\ CommandThreadsAlive < MaxThreads
            /\ command(kind, arg)

NextCalls ==
    \/ CommandCall
    \/ WorkerLock
    \/ WorkerReturn
    \/ ClientConnect
    \/ ConnectThreadLock
    \/ ConnectThreadOpen
    \/ UpdateProfilesLock
    \/ ConnectThreadFinish
    \/ ClientDisconnect
    \/ DisconnectThread
    \/ DisconnectThreadNotify

SpecCalls ==
    /\ Init
    /\ [][NextCalls]_vars
    /\ \A kind \in CalledCommands : \A arg \in Args(kind) :
           SF_vars(worker_lock(Thread(kind, "lock", arg)))
    /\ WF_vars(WorkerReturn)
    /\ WF_vars(ConnectThreadFinish)

\* the client found by the monitor thread, and nothing else done
InitReceive ==
    /\ current_phase = NONE
    /\ recording_started = FALSE
    /\ game_update_callback = FALSE
    /\ obs_connected = FALSE
    /\ obs_ws = "None"
    /\ obs_recording = FALSE
    /\ obs_profiles = {}
    /\ obs_event_handlers = 0
    /\ workers = [start |-> 0, stop |-> 0]
    /\ profile_workers = 0
    /\ obsEvents = <<>>
    /\ startReqs = 0
    /\ stopReqs = 0
    /\ nNotif = 0
    /\ lastNotif = NoEvent
    /\ nGameflow = 0
    /\ flagSeen = <<>>
    /\ lastRaw = NoEvent
    /\ nRepeat = 0
    /\ InitApi
    /\ InitClient
    /\ auth_token = "cmlvdDox"
    /\ client_port = "port 1"
    /\ auth_monitoring = TRUE
    /\ auth_connected = TRUE
    /\ auth_callbacks = <<>>
    /\ auth_invoked = <<>>
    /\ monitor_pc = "idle"
    /\ monitor_new = <<None, None>>
    /\ stop_pc = "idle"
    /\ net_requests = 0
    /\ api_result = NoResult

\* one websocket thread at a time
ApiStart ==
    /\ ws_pc \in {"none", "ended"}
    /\ LCUApi_start

ApiStop ==
    /\ api_running
    /\ LCUApi_stop

ApiConnect == \E outcome \in ConnectOutcomes : _connect(outcome)

CallbackCall == \E outcome \in CallbackOutcomes : callback_call(outcome)

PeerSend ==
    \E message \in Inbound :
        /\ peer_sent < MaxFrames
        /\ peer_send(message)

\* the subscriptions are made before the connection is there, as
\* GameTracker.start makes them
SubscribeReceive ==
    \E event_path \in ReceivePaths, callback \in Callbacks :
        /\ ws_pc \in {"none", "loop", "connect"}
        /\ Cardinality(registrations) < MaxSubs
        /\ subscribe(event_path, callback)

\* the receive loop of a running client whose peer accepts connections
NextReceive ==
    \/ ApiStart
    \/ _run_websocket_client
    \/ ApiConnect
    \/ _run_websocket_client_finally
    \/ recv
    \/ recv_raises
    \/ CallbackCall
    \/ PeerSend
    \/ peer_close
    \/ SubscribeReceive

SpecReceive == InitReceive /\ [][NextReceive]_vars

\* subscriptions made at any time, before and after the connection is there
SubscribeAnytime ==
    \E event_path \in ReceivePaths, callback \in Callbacks :
        /\ Cardinality(registrations) < MaxSubs
        /\ subscribe(event_path, callback)

\* a running client, its peer, and callers that subscribe
NextSubscribe ==
    \/ ApiStart
    \/ _run_websocket_client
    \/ ApiConnect
    \/ _run_websocket_client_finally
    \/ recv_raises
    \/ peer_close
    \/ peer_toggle
    \/ SubscribeAnytime

SpecSubscribe == InitReceive /\ [][NextSubscribe]_vars

\* the connection loop, with the credentials and the peer coming and going
NextReconnect ==
    \/ ApiStart
    \/ ApiStop
    \/ _run_websocket_client
    \/ ApiConnect
    \/ _run_websocket_client_finally
    \/ recv_raises
    \/ peer_close
    \/ peer_toggle
    \/ start_monitoring
    \/ UpdateAuth
    \/ update_auth_token
    \/ update_auth_port
    \/ update_auth_notify

\* the websocket thread is scheduled again and again
SpecReconnect ==
    /\ Init
    /\ [][NextReconnect]_vars
    /\ WF_vars(_run_websocket_client)
    /\ WF_vars(ApiConnect)
    /\ WF_vars(_run_websocket_client_finally)
    /\ WF_vars(recv_raises)

\* ------------------------------------------------------------------ claims

\* the mapped phase of a gameflow payload that carries a session object
MappedPhase(payload) == phase_mapping(phase_field(payload))

\* the table of the specification's section 4.4
C8_Table(raw) ==
    IF raw = "Lobby" THEN LOBBY
    ELSE IF raw = "Matchmaking" THEN MATCHMAKING
    ELSE IF raw = "ChampSelect" THEN CHAMPION_SELECT
    ELSE IF raw = "GameStart" THEN GAME_START
    ELSE IF raw = "InProgress" THEN IN_GAME
    ELSE IF raw \in {"WaitingForStats", "PreEndOfGame", "EndOfGame"} THEN POST_GAME
    ELSE NONE

\* C8: after a gameflow event whose session carries raw phase s (or no phase
\* field at all), current_phase is the phase the table gives for s: Lobby,
\* Matchmaking, ChampionSelect, GameStart, InGame, PostGame for the three
\* end-of-game strings, and None for every other string and for a missing field.
C8_PhaseMapping ==
    [][\A payload \in RawPhases \cup {NoPhaseField} :
          Gameflow(payload) => current_phase' = C8_Table(payload)]_vars

\* an unrecognised string took the tracker from another phase back to None,
\* and the notification carried that string
C8_Witness ==
    /\ lastRaw = "TerminatedInError"
    /\ lastNotif = "TerminatedInError"
    /\ current_phase = NONE
    /\ nNotif = 2

\* C9: when start() returns after a read that returned a session with raw
\* phase p, current_phase is the mapped phase of p.
C9_StartSeedsPhase ==
    [][\A gameflow \in GameflowReads \ {EmptyRead} :
          start(gameflow) => current_phase' = MappedPhase(gameflow)]_vars

\* C10: start() issues no start-recording request, whatever the initial read
\* returned and whether or not peer-2 is connected.
C10_StartNeverStartsRecording ==
    [][\A gameflow \in GameflowReads :
          start(gameflow) => /\ startReqs' = startReqs
                             /\ workers'.start = workers.start]_vars

\* start() has run while peer-2 was connected (its profile request is in
\* flight) and the recording flag was false, and no start request exists
C10_Witness ==
    /\ obs_event_handlers = 1
    /\ profile_workers = 1
    /\ obs_connected
    /\ ~recording_started
    /\ nGameflow = 0
    /\ startReqs = 0

C3_FlagChangesOnlyOnEvent ==
    [][recording_started' # recording_started =>
          /\ _on_recording_state_changed
          /\ obs_event_handlers > 0
          /\ recording_started' = Head(obsEvents)]_vars

\* a start request was issued and its worker has returned, the confirmation
\* is still in flight, and the tracker's flag is still false
C3_Witness ==
    /\ obs_event_handlers = 1
    /\ startReqs = 1
    /\ workers.start = 0
    /\ obsEvents = <<TRUE>>
    /\ ~recording_started

\* C4 as stated: a start or stop command whose RPC call reports success
\* leaves OBSClient's recording flag as it was.
C4_CommandSuccessKeepsFlag ==
    [][(start_recording_worker("ok") \/ stop_recording_worker("ok")) =>
          obs_recording' = obs_recording]_vars

\* C4 amended: OBSClient's recording flag changes only in the
\* RecordStateChanged handler, in a start (to true) or stop (to false) worker
\* whose RPC call reports success, and in disconnect (to false); a worker
\* whose call reports failure or raises leaves it unchanged.
C4_FlagWriters ==
    [][/\ obs_recording' # obs_recording =>
            \/ _on_recording_state_changed
            \/ start_recording_worker("ok") /\ obs_ws = "open" /\ obs_recording'
            \/ stop_recording_worker("ok") /\ obs_ws = "open" /\ ~obs_recording'
            \/ disconnect /\ ~obs_recording'
       /\ \A outcome \in {"error", "raise"} :
              (start_recording_worker(outcome) \/ stop_recording_worker(outcome)) =>
                  obs_recording' = obs_recording]_vars

\* the worker of the one start request has set OBSClient's flag while the
\* RecordStateChanged event is still in flight
C4_Witness ==
    /\ obs_recording
    /\ ~recording_started
    /\ obs_event_handlers = 1
    /\ startReqs = 1
    /\ stopReqs = 0
    /\ workers.start = 0
    /\ obsEvents = <<TRUE>>

\* C5: a gameflow event that carries the payload of the peer-1 event just
\* before it produces no notification and no recording request and changes
\* nothing in the tracker; an event that is a phase change produces exactly
\* one notification (when a callback is registered) and at most one request.
C5_RepeatedEventDoesNothing ==
    [][\A payload \in GameflowPayloads :
          /\ (lastRaw = payload /\ Gameflow(payload)) =>
                 UNCHANGED <<nNotif, lastNotif, startReqs, stopReqs, workers,
                             current_phase, recording_started>>
          /\ (Gameflow(payload) /\ payload # NullData
              /\ MappedPhase(payload) # current_phase) =>
                 /\ nNotif' = nNotif + (IF game_update_callback THEN 1 ELSE 0)
                 /\ (startReqs' + stopReqs') - (startReqs + stopReqs) \in {0, 1}]_vars

\* ChampSelect twice in a row: one notification and one start request
C5_Witness ==
    /\ nGameflow = 2
    /\ nRepeat = 1
    /\ lastRaw = "ChampSelect"
    /\ lastNotif = "ChampSelect"
    /\ nNotif = 1
    /\ startReqs = 1
    /\ stopReqs = 0

\* C7: on a phase change to P, a start request is issued only if P is
\* ChampionSelect or InGame and the flag is false, a stop request only if P
\* is None, Lobby or PostGame and the flag is true, and no request at all
\* when P is Matchmaking or GameStart.
C7_PhaseChangePolicy ==
    [][\A payload \in GameflowPayloads \ {NullData} :
          (Gameflow(payload) /\ MappedPhase(payload) # current_phase) =>
              /\ startReqs' # startReqs =>
                     /\ MappedPhase(payload) \in {CHAMPION_SELECT, IN_GAME}
                     /\ ~recording_started
              /\ stopReqs' # stopReqs =>
                     /\ MappedPhase(payload) \in {NONE, LOBBY, POST_GAME}
                     /\ recording_started
              /\ MappedPhase(payload) \in {MATCHMAKING, GAME_START} =>
                     UNCHANGED <<startReqs, stopReqs, workers>>]_vars

\* the first gameflow event was InProgress and it issued a start request
C7_Witness ==
    /\ nGameflow = 1
    /\ lastRaw = "InProgress"
    /\ current_phase = IN_GAME
    /\ startReqs = 1

\* C1 as stated: after the five events of the scenario there has been
\* exactly one start request and exactly one stop request, wherever the
\* RecordStateChanged confirmations fell.
C1_ExactlyOnceWhenever ==
    nGameflow = Len(Scenario) => startReqs = 1 /\ stopReqs = 1

\* C1 amended: the first start request is issued at ChampSelect and no stop
\* request before WaitingForStats; there is exactly one start and exactly one
\* stop when the confirmation of the start has set the flag by the time
\* InProgress is handled.  When it has not, InProgress issues a second start
\* request, and WaitingForStats issues its stop request only if the flag is
\* true by then.
C1_ExactlyOnceWhenConfirmed ==
    /\ nGameflow < 3 => startReqs = 0
    /\ nGameflow = 3 => startReqs = 1
    /\ nGameflow < 5 => stopReqs = 0
    /\ nGameflow >= 4 => startReqs = (IF flagSeen[4] THEN 1 ELSE 2)
    /\ nGameflow = 5 => stopReqs = (IF flagSeen[5] THEN 1 ELSE 0)
    /\ (nGameflow = 5 /\ flagSeen[4]) => startReqs = 1 /\ stopReqs = 1

\* the scenario has run with the confirmation delivered before InProgress
C1_Witness ==
    /\ nGameflow = 5
    /\ flagSeen = <<FALSE, FALSE, FALSE, TRUE, TRUE>>
    /\ startReqs = 1
    /\ stopReqs = 1

\* C6: in the scenario the HomeScreen event produces no notification and
\* each later event exactly one, carrying its raw phase: four notifications,
\* Lobby, ChampSelect, InProgress, WaitingForStats in that order.
C6_ScenarioNotifications ==
    /\ nGameflow <= 1 => nNotif = 0 /\ lastNotif = NoEvent
    /\ nGameflow >= 2 => nNotif = nGameflow - 1 /\ lastNotif = Scenario[nGameflow]
    /\ nGameflow = Len(Scenario) => nNotif = 4

\* all five events have been fed and the fourth notification was WaitingForStats
C6_Witness ==
    /\ nGameflow = Len(Scenario)
    /\ nNotif = 4
    /\ lastNotif = "WaitingForStats"

\* the path of an event frame: its topic without the leading marker
FramePath(data) == Tail(data[2])

\* registered_path is a prefix of event_path
IsPrefix(registered_path, event_path) ==
    \E rest \in Paths : event_path = registered_path \o rest

\* C11: an event frame is delivered once to each handler registered at a
\* path that is a prefix of the frame's path, and to no other handler; a
\* frame that is not an event frame is delivered to none.
C11_PrefixDispatch ==
    [][\A data \in Frames :
          _handle_messages(data) =>
              \A r \in Paths \X Callbacks :
                  api_delivered'[r] =
                      IF /\ Len(data) = 3
                         /\ data[1] = 8
                         /\ r \in registrations
                         /\ IsPrefix(r[1], FramePath(data))
                      THEN 1
                      ELSE 0]_vars

\* an event at path "gx" went to the handler registered at "g" and not to
\* the handler registered at "x"
C11_Witness ==
    /\ api_frame = <<EventOpcode, <<Marker, "g", "x">>, EventData>>
    /\ registrations = {<< <<"g">>, "h1" >>, << <<"x">>, "h2" >>}
    /\ api_delivered[<< <<"g">>, "h1" >>] = 1
    /\ api_delivered[<< <<"x">>, "h2" >>] = 0

\* C12: a get_request or post_request called while the token or the port is
\* absent returns the empty object and issues no network request.
C12_NoCredentialsNoRequest ==
    [][\A outcome \in HttpOutcomes :
          (/\ auth_token = None \/ client_port = None
           /\ \/ get_request(outcome)
              \/ \E has_content \in BOOLEAN : post_request(outcome, has_content)) =>
              /\ api_result' = EmptyObject
              /\ net_requests' = net_requests]_vars

\* a request was made while the monitor thread had stored the token and not
\* yet the port: it returned the empty object and nothing went to the network
C12_Witness ==
    /\ auth_token # None
    /\ client_port = None
    /\ monitor_pc = "port"
    /\ stop_pc = "idle"
    /\ api_result = EmptyObject
    /\ net_requests = 0

\* C14: in every state another thread can observe, the token and the port
\* are both present or both absent.
C14_TokenAndPortTogether == (auth_token = None) <=> (client_port = None)

\* C15: registering a callback that is not registered yet makes exactly one
\* call of it, with the connection state of that moment, connected or not.
C15_RegistrationReplaysState ==
    [][\A callback \in Callbacks :
          (add_connection_callback(callback) /\ count(auth_callbacks, callback) = 0) =>
              /\ auth_invoked' = << <<callback, auth_connected>> >>
              /\ auth_connected' = auth_connected]_vars

\* a second callback was registered while disconnected, after a first one
\* had been registered: it alone was called, with false
C15_Witness ==
    /\ auth_callbacks = <<"h1", "h2">>
    /\ ~auth_connected
    /\ auth_invoked = << <<"h2", FALSE>> >>

\* C13: the worker of set_profile, for a name that is not in the profile
\* list, calls the callback with failure and ends without an RPC call: it
\* never holds the operation lock and never waits for peer-2.
C13_UnknownProfileFailsLocally ==
    [][\A st \in BagToSet(threads) :
          (/\ worker_lock(st)
           /\ st.kind = "set_profile"
           /\ st.arg \notin obs_profiles) =>
              /\ client_log' = << <<"callback", "set_profile", st.arg, "False">> >>
              /\ threads' = threads (-) SetToBag({st})
              /\ operation_lock' = operation_lock]_vars

\* set_profile("Unknown") was called while connected with the list
\* ["League of Legends"], and its worker has reported failure
C13_Witness ==
    /\ obs_connected
    /\ obs_profiles = {ProfileName}
    /\ client_log = << <<"callback", "set_profile", UnknownProfile, "False">> >>
    /\ alive("set_profile") = {}
    /\ ~operation_lock

\* C16 as stated: registering a new connection handler calls it once with
\* the current connection state, connected or disconnected.
C16_ReplayAlways ==
    [][\A handler \in Callbacks :
          (/\ add_connection_handler(handler)
           /\ count(connection_handlers, handler) = 0) =>
              client_log' =
                  << <<"handler", handler, IF obs_connected THEN "True" ELSE "False">> >>]_vars

\* C16 amended: registering a new connection handler calls it once, with
\* true, when the client is connected, and does not call it when the client
\* is disconnected.
C16_ReplayWhenConnected ==
    [][\A handler \in Callbacks :
          (/\ add_connection_handler(handler)
           /\ count(connection_handlers, handler) = 0) =>
              /\ obs_connected => client_log' = << <<"handler", handler, "True">> >>
              /\ ~obs_connected => client_log' = <<>>
              /\ connection_handlers' = Append(connection_handlers, handler)]_vars

\* a first handler was registered while disconnected and a second one
\* after the connect: the second one alone was called, with true
C16_Witness ==
    /\ obs_connected
    /\ connection_handlers = <<"h1", "h2">>
    /\ connect_trace = << <<"_connected", NoArg, "True">>, <<"handler", "h1", "True">>,
                          <<"callback", NoArg, "True">> >>
    /\ client_log = << <<"handler", "h2", "True">> >>

\* the worker of a command holds the operation lock and waits for the
\* answer to its RPC call
CallInFlight ==
    \E st \in BagToSet(threads) : st.kind \in Commands /\ st.pc = "call"

\* C17: teardown (the disconnect worker, or stop) never closes or clears
\* the session while the RPC call of a command is in flight.
C17_TeardownExcludesCalls ==
    [][(OBSClient_stop \/ \E st \in BagToSet(threads) : _disconnect_thread(st)) =>
          ~CallInFlight]_vars

\* the RPC calls in flight: those of the commands and of the keepalive thread
CallsInFlight ==
    LET calling == {st \in BagToSet(threads) :
                       st.kind \in Commands \cup {"keepalive"} /\ st.pc = "call"}
        sum[S \in SUBSET calling] ==
            IF S = {} THEN 0
            ELSE LET st == CHOOSE x \in S : TRUE
                 IN  CopiesIn(st, threads) + sum[S \ {st}]
    IN  sum[calling]

\* C18: at most one RPC call of the commands and the keepalive thread is in
\* flight at any time, and a command called while connected returns true
\* at once: it starts a worker that has yet to take the lock, whoever holds it.
C18_OneCallInFlight ==
    /\ [](CallsInFlight <= 1)
    /\ [][\A kind \in Commands :
             \A arg \in Args(kind) :
                 (command(kind, arg) /\ obs_connected) =>
                     /\ client_log' = << <<"return", kind, arg, "True">> >>
                     /\ threads' = threads (+) SetToBag({Thread(kind, "lock", arg)})
                     /\ operation_lock' = operation_lock]_vars

\* stop_recording was called, and has returned, while the StartRecord call
\* of start_recording is in flight: its worker waits for the lock
C18_Witness ==
    /\ operation_lock
    /\ CopiesIn(Thread("start_recording", "call", NoArg), threads) = 1
    /\ CopiesIn(Thread("stop_recording", "lock", NoArg), threads) = 1
    /\ client_log = << <<"return", "stop_recording", NoArg, "True">> >>

\* C19: a command called while not connected calls its callback with the
\* failure or empty value and returns false; it starts no worker, so it
\* issues no RPC call.
C19_RefusedWhenDisconnected ==
    [][\A kind \in Commands :
          \A arg \in Args(kind) :
              (command(kind, arg) /\ ~obs_connected) =>
                  /\ client_log' =
                         << <<"callback", kind, arg,
                              IF kind \in {"get_profiles", "get_scene_list"} THEN "[]"
                              ELSE IF kind = "get_current_scene" THEN "''"
                              ELSE "False">>,
                            <<"return", kind, arg, "False">> >>
                  /\ threads' = threads
                  /\ operation_lock' = operation_lock]_vars

\* get_scene_list was called after a connect that failed: the callback got
\* the empty list, the call returned false and no thread is alive
C19_Witness ==
    /\ ~obs_connected
    /\ obs_ws = "closed"
    /\ threads = EmptyBag
    /\ client_log = << <<"callback", "get_scene_list", NoArg, "[]">>,
                       <<"return", "get_scene_list", NoArg, "False">> >>

\* C20: a connect worker that succeeds has set the connected flag, then
\* called every registered connection handler with true, and then called
\* the caller's callback with true.
C20_HandlersBeforeCallback ==
    [][\A st \in BagToSet(threads), outcome \in RpcOutcomes, profiles \in ProfileLists :
          _connect_thread_finish(st, outcome, profiles) =>
              connect_trace' =
                  << <<"_connected", NoArg, "True">> >>
                  \o [i \in 1..Len(connection_handlers) |->
                         <<"handler", connection_handlers[i], "True">>]
                  \o << <<"callback", NoArg, "True">> >>]_vars

\* a connect succeeded with two handlers registered
C20_Witness ==
    /\ obs_connected
    /\ connection_handlers = <<"h2", "h1">>
    /\ connect_trace = << <<"_connected", NoArg, "True">>, <<"handler", "h2", "True">>,
                          <<"handler", "h1", "True">>, <<"callback", NoArg, "True">> >>

\* C21: a connect worker that fails at any step (the session does not open,
\* the GetVersion call raises, or it returns no response) leaves the
\* connected flag false and calls the caller's callback with failure once.
C21_ConnectFailureReported ==
    [][\A st \in BagToSet(threads), step \in ConnectSteps \ {"response"} :
          _connect_thread_open(st, step) =>
              /\ obs_connected' = FALSE
              /\ connect_trace' = << <<"_connected", NoArg, "False">>,
                                     <<"callback", NoArg, "False">> >>
              /\ threads' = threads (-) SetToBag({st})]_vars

\* a connect given a callback got no response to GetVersion
C21_Witness ==
    /\ ~obs_connected
    /\ client_log = << <<"rpc", "connect", NoArg, "no response">> >>
    /\ connect_trace = << <<"_connected", NoArg, "False">>, <<"callback", NoArg, "False">> >>
    /\ alive("connect") = {}

C23_ConnectStartsKeepalive ==
    [][\A st \in BagToSet(threads), outcome \in RpcOutcomes, profiles \in ProfileLists :
          _connect_thread_finish(st, outcome, profiles) =>
              (obs_connected' => alive("keepalive")' # {})]_vars

\* C24: when the GetVersion call of the keepalive thread raises, the thread
\* ends, the connected flag becomes false and the thread starts no connect
\* worker; a connect called while the flag is false starts a worker, which
\* makes a new session object.
C24_KeepaliveFailureEndsConnection ==
    /\ [][\A outcome \in RpcOutcomes :
             (_keepalive_loop_return(outcome) /\ rpc(outcome) = "raise") =>
                 /\ obs_connected' = FALSE
                 /\ threads' = threads (-) SetToBag({KeepaliveCall})]_vars
    /\ [][(OBSClient_connect /\ ~obs_connected) =>
             threads' = threads (+) SetToBag({Thread("connect", "lock", "callback")})]_vars
    /\ [][\A st \in BagToSet(threads) :
             _connect_thread_lock(st) => obs_ws' = "closed" /\ connect_trace' = <<>>]_vars

\* the keepalive call of a client started with start() has raised on an
\* open session: the flag is false, no thread is left, the client still runs
C24_Witness ==
    /\ client_log = << <<"rpc", "keepalive", NoArg, "raise">> >>
    /\ obs_ws = "open"
    /\ obs_running
    /\ ~obs_connected
    /\ threads = EmptyBag

\* C29: when stop_monitoring returns, the token and the port are both
\* absent, whether the monitor thread has ended or not.
C29_StopLeavesNoCredentials ==
    [][stop_monitoring_port => (auth_token' = None /\ client_port' = None)]_vars

\* C30: no handler occurs more than once in the handler list of a path,
\* whatever subscribe and unsubscribe calls were made, and a subscribe of a
\* pair that is registered leaves the subscriptions as they are.
C30_NoDuplicateHandlers ==
    /\ [](\A event_path \in Paths :
             \A callback \in Callbacks :
                 count(api_event_handlers[event_path], callback) <= 1)
    /\ [][\A event_path \in Paths :
             \A callback \in Callbacks :
                 (/\ subscribe(event_path, callback)
                  /\ count(api_event_handlers[event_path], callback) > 0) =>
                     api_event_handlers' = api_event_handlers]_vars

\* subscribe("g", h1) was called with h1 registered at "g": the list is
\* as it was
C30_Witness ==
    /\ api_call = <<"subscribe", <<"g">>, "h1", <<"h1">> >>
    /\ api_event_handlers[<<"g">>] = <<"h1">>

\* C25: while LCUApi is running the websocket thread does not end; a
\* failed connect and the end of the receive loop both lead to another
\* connect attempt, and when the credentials stay present and peer-1 keeps
\* accepting connections the thread is connected and receiving again.
C25_ReconnectsWhileRunning ==
    /\ [](api_running => ws_pc \notin {"none", "ended"})
    /\ [](ws_pc = "finally" => <>(ws_pc = "connect" \/ ~api_running))
    /\ (<>[](api_running /\ peer_accepts /\ is_client_running)
            => []<>(ws_pc = "recv" /\ api_ws = "open" /\ api_is_connected))

\* a connection has ended and the thread of the running client is about to
\* connect again
C25_Witness ==
    /\ api_running
    /\ ws_pc = "connect"
    /\ api_ws = "closed"
    /\ peer_conn = "down"

\* the message has the form [8, name, object]
EventForm(message) ==
    IF Len(message) # 3 THEN FALSE
    ELSE IF message[1] # 8 THEN FALSE
    ELSE message[3] = EventData

\* C26: a message that has not the form [8, name, object] calls no handler
\* and does not end the receive loop of a running client.
C26_MalformedFrameSkipped ==
    [][(recv /\ api_running /\ ~EventForm(Head(api_inbox)[2])) =>
          /\ api_calls' = api_calls
          /\ api_pending' = <<>>
          /\ ws_pc' = "recv"]_vars

\* the (path, callback) pairs of the calls made for message number
CallsFor(calls, number) ==
    LET IsFor(c) == c[1] = number
        made == SelectSeq(calls, IsFor)
    IN  [i \in 1..Len(made) |-> <<made[i][2], made[i][3]>>]

\* C27: when a handler raises during the dispatch of an event, the calls
\* made and the calls still to make remain one full pass over the matching
\* handlers, and the thread goes on with the next handler or, after the
\* last one, with the next message.
C27_HandlerExceptionContained ==
    [][\A outcome \in CallbackOutcomes :
          callback_call(outcome) =>
              /\ (CallsFor(api_calls', api_current) \o api_pending')
                     \in Iterations(replace(api_frame[2]))
              /\ outcome = "raises" =>
                     /\ api_pending' = Tail(api_pending)
                     /\ api_running =>
                            ws_pc' = IF Tail(api_pending) = <<>> THEN "recv" ELSE "dispatch"]_vars

\* h1 raised on the first event, h2 was still called for it, and the next
\* event was dispatched
C27_Witness ==
    /\ api_calls = << <<1, <<"g">>, "h1", "raises">>, <<1, <<"g">>, "h2", "returns">>,
                     <<2, <<"g">>, "h1", "returns">> >>
    /\ ws_pc = "dispatch"
    /\ api_pending = << << <<"g">>, "h2" >> >>

\* C28: the handlers are called for the messages in the order peer-1 sent
\* them, a message is taken only when no call of the message before is
\* left to make, and the messages are taken in the order they were sent.
C28_DispatchInReceiveOrder ==
    /\ [](\A i, j \in 1..Len(api_calls) : i < j => api_calls[i][1] <= api_calls[j][1])
    /\ [][recv => (api_pending = <<>> /\ api_current' > api_current)]_vars

\* two events were sent, and the second was taken after both handlers of
\* the first had been called
C28_Witness ==
    /\ api_current = 2
    /\ Len(api_calls) = 4
    /\ api_calls[2][1] = 1
    /\ api_calls[3][1] = 2
    /\ api_calls[1][3] # api_calls[2][3]

\* C32: with peer-2 connected, once the phase has settled after the game
\* (the scenario's last event handled, no recording request in flight and no
\* RecordStateChanged event on its way), peer-2 is not recording.
C32_SettledMeansNotRecording ==
    (/\ nGameflow = Len(Scenario)
     /\ current_phase = POST_GAME
     /\ obs_connected
     /\ workers.start + workers.stop = 0
     /\ obsEvents = <<>>) => ~obs_recording

\* C39: whenever the monitor thread is not inside update_auth and no thread
\* is inside stop_monitoring, the connected flag of LeagueClientAuth is true
\* exactly when the token and the port are present.
C39_ConnectedIffCredentials ==
    (monitor_pc = "idle" /\ stop_pc = "idle") => (auth_connected <=> is_client_running)

\* C33: is_connected of LCUApi is true only while the session handle is open,
\* and it is false whenever the websocket thread is about to make a
\* connection, that is after the receive loop of the connection before has
\* ended.
C33_ConnectedOnlyWhileOpen ==
    /\ api_is_connected => api_ws = "open"
    /\ ws_pc = "connect" => ~api_is_connected

\* C34: once stop() has cleared the running flag, and for as long as it
\* stays cleared, the websocket thread opens no connection.
C34_NoConnectionAfterStop ==
    [][(~api_running /\ ~api_running') => (api_ws' = "open" => api_ws = "open")]_vars

\* C35: while the connection is up, a subscribe frame has been sent on it
\* for every path that has a handler, whether the path was subscribed before
\* the connection was made or after.
C35_SubscribedPathsAreSent ==
    (api_is_connected /\ api_ws = "open" /\ peer_conn = "up") =>
        \A path \in Paths : api_event_handlers[path] # <<>> => path \in api_sent

\* the connect worker that held the connection lock last ended in its
\* except clause
last_connect_failed ==
    /\ connect_trace # <<>>
    /\ connect_trace[Len(connect_trace)] = <<"callback", NoArg, "False">>

\* C31: once update_settings has returned from its reconnect and the
\* workers it started have ended, with no connection attempt refused by
\* peer-2, the client is connected through a session made with the new
\* host, port and password.
C31_UpdateSettingsReconnects ==
    (settings_pc = "returned" /\ threads = EmptyBag /\ ~last_connect_failed) =>
        (obs_connected /\ obs_ws = "open" /\ obs_session_settings = obs_settings)

\* C36: a connect worker opens a session only when the client is not
\* connected, that is when no session opened before is still open.
C36_OneSessionAtATime ==
    [][\A st \in BagToSet(threads) :
          _connect_thread_open(st, "response") => ~obs_connected]_vars

\* C37: at most one keepalive thread is alive.
C37_OneKeepalive ==
    CopiesIn(Keepalive, threads) + CopiesIn(KeepaliveCall, threads) <= 1

\* C38: whenever threads of OBSClient are alive, one of them can take a
\* step, so they are never all waiting for a lock; and connect, disconnect
\* and every command can be called while a lock is held, as a callback that
\* runs under the lock calls them, since they take no lock in the calling
\* thread.
C38_NoDeadlock ==
    /\ threads # EmptyBag => ENABLED ThreadSteps
    /\ (connection_lock \/ operation_lock) =>
           /\ ENABLED OBSClient_connect
           /\ ENABLED OBSClient_disconnect
           /\ \A kind \in Commands : \A arg \in Args(kind) : ENABLED command(kind, arg)

\* a connect worker holds both locks while a command worker and a
\* disconnect worker wait
C38_Witness ==
    /\ connection_lock
    /\ operation_lock
    /\ \E st \in alive("connect") : st.pc = "profiles_call"
    /\ \E st \in CommandThreads : st.pc = "lock"
    /\ \E st \in alive("disconnect") : st.pc = "lock"

\* the entries of a log that are callback calls, or returns, of commands
CommandEntries(log, what) ==
    Cardinality({i \in 1..Len(log) : log[i][1] = what /\ log[i][2] \in Commands})

\* the callback of a command was called in the last step
CallbackCalled(kind, arg) ==
    \E i \in 1..Len(client_log) :
        /\ client_log[i][1] = "callback"
        /\ client_log[i][2] = kind
        /\ client_log[i][3] = arg

====
